---- MODULE Spec2Model ----
(***************************************************************************)
(* Copy-trading engine (sune871/copy, fsdownload/src): the pipeline from a *)
(* streamed transaction update to the mirror swap submission.              *)
(*                                                                         *)
(*   subscriber  : GrpcMonitor::start_monitoring / monitor_loop            *)
(*   dispatch    : GrpcMonitor::process_transaction, handle_parsed_trade   *)
(*   decoder     : parser::TransactionParser and the three dialects        *)
(*   executor    : TradeExecutor::execute_trade and the detached tasks     *)
(*   chain       : the follower wallet's accounts as seen through the RPC  *)
(*                                                                         *)
(* Amount units.  u64 amounts are lamports / raw token units.  An f64      *)
(* amount of SOL is represented by the integer number of tenths of a       *)
(* lamport (1 SOL = 10^10 units), so that `x as f64 / 1e9` is `x * 10` and *)
(* `(s * 1e9) as u64` is the truncating `s \div 10`.                       *)
(***************************************************************************)
EXTENDS Integers, Sequences, FiniteSets, TLC

(***************************************************************************)
(* Bounds of the model                                                     *)
(***************************************************************************)
MaxUpdates == 2

MaxExternal == 1

(***************************************************************************)
(* Program constants (types/mod.rs)                                        *)
(***************************************************************************)
RAYDIUM_AMM_V4 == "675kPX9M_AMM_V4"

RAYDIUM_CPMM == "CPMMoo8L_CPMM"

RAYDIUM_CLMM == "CAMMCzo5_CLMM"

PUMP_FUN_PROGRAM == "6EF8rrec_PUMP"

WSOL_MINT == "So111111_WSOL"

USDC_MINT == "EPjFWdd5_USDC"

USDT_MINT == "Es9vMFrz_USDT"

RAYDIUM_AMM_SWAP_INSTRUCTION == 9

RAYDIUM_CPMM_SWAP_BASE_INPUT == <<143, 190, 90, 218, 196, 30, 51, 222>>

RAYDIUM_CPMM_SWAP_BASE_OUTPUT == <<55, 217, 98, 86, 163, 74, 180, 173>>

PUMP_BUY_INSTRUCTION == 102

PUMP_SELL_INSTRUCTION == 51

\* the wallet address hard-coded in raydium_cpmm.rs::find_user_wallet
TARGET_WALLET == "CuwxHwz42cNivJqWGBk6HcVvfGq47868Mo6zi4u6z9vC"

SYSTEM_PROGRAM == "11111111_SYSTEM"

TOKEN_PROGRAM == "Tokenkeg_TOKEN"

\* the base network fee used by the decoders' gas computation
BASE_FEE == 5000

(***************************************************************************)
(* Abstract addresses.  A key is a string; the substring tests of the      *)
(* decoders (`contains("Program")`, ...) are membership in these sets.     *)
(***************************************************************************)
\* the configured leader: the wallet the repository names (main.rs, line 2)
LEADER == TARGET_WALLET

STRANGER == "OtherWallet"

FOLLOWER == "FollowerWallet"

MINT_A == "MintA"

KeysContainingProgram == {"xProgramx"}

KeysContainingOracle == {"xoraclex"}

KeysContainingAuthority == {"xauthorityx"}

KeysContainingTip == {"x0slotx", "xtipx"}

ContainsProgram(k) == k \in KeysContainingProgram

ContainsOracle(k) == k \in KeysContainingOracle

ContainsAuthority(k) == k \in KeysContainingAuthority

ContainsTip(k) == k \in KeysContainingTip

(***************************************************************************)
(* Little-endian u64 helpers (to_le_bytes / from_le_bytes)                 *)
(***************************************************************************)
RECURSIVE LEBytes(_, _)
LEBytes(n, k) == IF k = 0 THEN <<>> ELSE <<n % 256>> \o LEBytes(n \div 256, k - 1)

\* a u64 is held as its four 16-bit limbs, least significant first, so that
\* the whole range of the type is representable
U64Limbs(n) == <<n % 65536, (n \div 65536) % 65536, 0, 0>>

U64Value(w) == w[1] + 65536 * (w[2] + 65536 * (w[3] + 65536 * w[4]))

\* u64::to_le_bytes on limbs: 8 bytes, least significant first
u64_to_le_bytes(w) ==
    LEBytes(w[1], 2) \o LEBytes(w[2], 2) \o LEBytes(w[3], 2) \o LEBytes(w[4], 2)

\* u64::from_le_bytes of an 8-byte slice, as limbs
u64_from_le_bytes(b) == [k \in 1..4 |-> b[2 * k - 1] + 256 * b[2 * k]]

to_le_bytes(n) == u64_to_le_bytes(U64Limbs(n))

from_le_bytes(b) == U64Value(u64_from_le_bytes(b))

Zeros(n) == [i \in 1..n |-> 0]

Min(a, b) == IF a < b THEN a ELSE b

saturating_sub(a, b) == IF a > b THEN a - b ELSE 0

\* 0-based indexing of a Rust slice
At(s, i) == s[i + 1]

\* first 0-based position of x in s, or -1
RECURSIVE PositionFrom(_, _, _)
PositionFrom(s, x, i) == IF i > Len(s) THEN -1
                         ELSE IF s[i] = x THEN i - 1
                         ELSE PositionFrom(s, x, i + 1)

Position(s, x) == PositionFrom(s, x, 1)

InSeq(s, x) == \E i \in DOMAIN s : s[i] = x

(***************************************************************************)
(* Decoder (parser/mod.rs, parser/raydium.rs, parser/pump.rs,              *)
(* parser/raydium_cpmm.rs).  A transaction update is a record              *)
(*   [signature, account_keys, instructions, pre_balances, post_balances,  *)
(*    pre_token_balances, post_token_balances]                             *)
(* whose token-balance rows are [accountIndex, mint, owner, amount,        *)
(* decimals].  A decoder result is [kind, trade] with kind one of          *)
(* "Some", "None", "Err", "Panic" (an out-of-range slice index).           *)
(***************************************************************************)
NoTrade == [signature |-> "", wallet |-> "", dex_type |-> "Unknown",
            trade_direction |-> "Sell",
            token_in |-> [mint |-> "", decimals |-> 0],
            token_out |-> [mint |-> "", decimals |-> 0],
            amount_in |-> 0, amount_out |-> 0, gas_fee |-> 0,
            pool_address |-> "", program_id |-> ""]

ResSome(t) == [kind |-> "Some", trade |-> t]

ResNone == [kind |-> "None", trade |-> NoTrade]

ResErr == [kind |-> "Err", trade |-> NoTrade]

ResPanic == [kind |-> "Panic", trade |-> NoTrade]

\* PoolLoader::load() with absent snapshot files: every lookup misses and the
\* decoder falls back to the hard-coded program id.
PoolProgramId(pool, fallback) == fallback

identify_dex_from_accounts(account_keys) ==
    LET tracked == {i \in DOMAIN account_keys :
                      account_keys[i] \in {RAYDIUM_AMM_V4, PUMP_FUN_PROGRAM,
                                           RAYDIUM_CPMM, RAYDIUM_CLMM}}
    IN IF tracked = {} THEN "Unknown"
       ELSE LET first == CHOOSE i \in tracked : \A j \in tracked : i <= j
                k == account_keys[first]
            IN IF k = RAYDIUM_AMM_V4 THEN "RaydiumAmmV4"
               ELSE IF k = PUMP_FUN_PROGRAM THEN "PumpFun"
               ELSE IF k = RAYDIUM_CPMM THEN "RaydiumCPMM"
               ELSE "RaydiumCLMM"

\* raydium.rs::parse_swap_instruction_data: Err when shorter than 17 bytes,
\* else the two little-endian u64 after the discriminator byte (as limbs)
parse_swap_instruction_data(data) ==
    IF Len(data) < 17 THEN [ok |-> FALSE, amount |-> U64Limbs(0), limit |-> U64Limbs(0)]
    ELSE [ok |-> TRUE,
          amount |-> u64_from_le_bytes(SubSeq(data, 2, 9)),
          limit |-> u64_from_le_bytes(SubSeq(data, 10, 17))]

\* pump.rs::parse_pump_instruction_data: the same layout, amount then
\* max_sol_cost
parse_pump_instruction_data(data) ==
    IF Len(data) < 17 THEN [ok |-> FALSE, amount |-> U64Limbs(0), limit |-> U64Limbs(0)]
    ELSE [ok |-> TRUE,
          amount |-> u64_from_le_bytes(SubSeq(data, 2, 9)),
          limit |-> u64_from_le_bytes(SubSeq(data, 10, 17))]

\* TransactionParser::calculate_token_balance_change: the amount of the first
\* row of the given mint in each list, 0 when there is none
FirstAmountOfMint(rows, mint) ==
    LET hit == {i \in DOMAIN rows : rows[i].mint = mint}
    IN IF hit = {} THEN 0
       ELSE rows[CHOOSE i \in hit : \A j \in hit : i <= j].amount

\* raydium.rs::find_mint_for_account ignores the account: the first row's mint
find_mint_for_account(rows) ==
    IF rows = <<>> THEN WSOL_MINT ELSE rows[1].mint

raydium_get_token_decimals(mint) == IF mint \in {USDC_MINT, USDT_MINT} THEN 6 ELSE 9

raydium_calculate_gas_fee(pre_balances, post_balances, user_index) ==
    IF user_index < Len(pre_balances) /\ user_index < Len(post_balances)
    THEN saturating_sub(At(pre_balances, user_index), At(post_balances, user_index))
    ELSE 0

parse_raydium_amm_v4_swap(tx, data) ==
    IF data = <<>> \/ data[1] # RAYDIUM_AMM_SWAP_INSTRUCTION THEN ResNone
    ELSE LET args == parse_swap_instruction_data(data) IN
    IF ~args.ok THEN ResErr
    ELSE IF Len(tx.account_keys) < 7 THEN ResPanic
    ELSE
      LET keys == tx.account_keys
          user_wallet == At(keys, 0)
          pre == tx.pre_token_balances
          post == tx.post_token_balances
          cand == {i \in DOMAIN pre : /\ pre[i].owner = user_wallet
                                      /\ pre[i].mint # WSOL_MINT
                                      /\ pre[i].accountIndex < Len(keys)}
      IN IF cand = {} THEN ResErr
         ELSE
           LET source_mint == find_mint_for_account(pre)
               dest_mint == find_mint_for_account(pre)
               dest_pre == FirstAmountOfMint(pre, dest_mint)
               dest_post == FirstAmountOfMint(post, dest_mint)
               actual_amount_out == saturating_sub(dest_post, dest_pre)
               buy == source_mint = WSOL_MINT
           IN ResSome([signature |-> tx.signature,
                       wallet |-> user_wallet,
                       dex_type |-> "RaydiumAmmV4",
                       trade_direction |-> IF buy THEN "Buy" ELSE "Sell",
                       token_in |-> [mint |-> source_mint,
                                     decimals |-> IF buy THEN 9
                                                  ELSE raydium_get_token_decimals(source_mint)],
                       token_out |-> [mint |-> dest_mint,
                                      decimals |-> IF buy THEN raydium_get_token_decimals(dest_mint)
                                                   ELSE 9],
                       amount_in |-> U64Value(args.amount),
                       amount_out |-> actual_amount_out,
                       gas_fee |-> raydium_calculate_gas_fee(tx.pre_balances, tx.post_balances, 0),
                       pool_address |-> At(keys, 1),
                       program_id |-> PoolProgramId(At(keys, 1), RAYDIUM_AMM_V4)])

\* The owner-filtered balance-delta scan shared by pump.rs::analyze_pump_trade
\* and raydium_cpmm.rs::parse_raydium_cpmm_swap: rows are paired by position
\* (zip), mint/owner/decimals are read from the pre row.
NoDelta == [in_token |-> "None", in_amount |-> 0, in_decimals |-> 6,
            out_token |-> "None", out_amount |-> 0, out_decimals |-> 6]

RECURSIVE ScanDeltas(_, _, _, _, _)
ScanDeltas(pre, post, user, i, acc) ==
    IF i > Min(Len(pre), Len(post)) THEN acc
    ELSE LET p == pre[i]
             q == post[i]
             next ==
               IF p.owner # user THEN acc
               ELSE IF p.amount > q.amount
                    THEN IF p.amount - q.amount > acc.in_amount
                         THEN [acc EXCEPT !.in_amount = p.amount - q.amount,
                                          !.in_token = p.mint,
                                          !.in_decimals = p.decimals]
                         ELSE acc
               ELSE IF q.amount > p.amount
                    THEN IF q.amount - p.amount > acc.out_amount
                         THEN [acc EXCEPT !.out_amount = q.amount - p.amount,
                                          !.out_token = p.mint,
                                          !.out_decimals = p.decimals]
                         ELSE acc
               ELSE acc
         IN ScanDeltas(pre, post, user, i + 1, next)

\* pump.rs::analyze_pump_trade: (amount_in, amount_out, token_in_mint,
\* token_out_mint, decimals_in, decimals_out, direction)
analyze_pump_trade(tx) ==
    LET d == ScanDeltas(tx.pre_token_balances, tx.post_token_balances,
                        At(tx.account_keys, 6), 1, NoDelta)
    IN [amount_in |-> d.in_amount,
        amount_out |-> d.out_amount,
        token_in_mint |-> IF d.in_token = "None" THEN WSOL_MINT ELSE d.in_token,
        token_out_mint |-> IF d.out_token = "None" THEN At(tx.account_keys, 2)
                           ELSE d.out_token,
        decimals_in |-> d.in_decimals,
        decimals_out |-> d.out_decimals,
        direction |-> IF d.in_token = WSOL_MINT THEN "Buy" ELSE "Sell"]

pump_calculate_gas_fee(pre_balances, post_balances, user_index) ==
    IF user_index < Len(pre_balances) /\ user_index < Len(post_balances)
    THEN BASE_FEE ELSE 0

parse_pump_trade(tx, data) ==
    IF data = <<>> THEN ResNone
    ELSE IF data[1] \notin {PUMP_BUY_INSTRUCTION, PUMP_SELL_INSTRUCTION} THEN ResNone
    ELSE IF ~parse_pump_instruction_data(data).ok THEN ResErr
    ELSE IF Len(tx.account_keys) < 7 THEN ResPanic
    ELSE
      LET keys == tx.account_keys
          user_address == At(keys, 6)
          a == analyze_pump_trade(tx)
          \* the caller binds the tuple as (actual_sol_amount,
          \* actual_token_amount, token_in_mint, token_out_mint, ...)
          actual_sol_amount == a.amount_in
          actual_token_amount == a.amount_out
          buy == a.direction = "Buy"
      IN \* calculate_pump_price: Err when the token amount is 0
         IF actual_token_amount = 0 THEN ResErr
         ELSE ResSome([signature |-> tx.signature,
                       wallet |-> user_address,
                       dex_type |-> "PumpFun",
                       trade_direction |-> a.direction,
                       token_in |-> IF buy THEN [mint |-> WSOL_MINT, decimals |-> 9]
                                    ELSE [mint |-> a.token_out_mint,
                                          decimals |-> a.decimals_out],
                       token_out |-> IF buy THEN [mint |-> a.token_in_mint,
                                                  decimals |-> a.decimals_in]
                                     ELSE [mint |-> WSOL_MINT, decimals |-> 9],
                       amount_in |-> IF buy THEN actual_sol_amount ELSE actual_token_amount,
                       amount_out |-> IF buy THEN actual_token_amount ELSE actual_sol_amount,
                       gas_fee |-> pump_calculate_gas_fee(tx.pre_balances, tx.post_balances,
                                                          Position(keys, user_address)),
                       pool_address |-> At(keys, 3),
                       program_id |-> PoolProgramId(At(keys, 2), PUMP_FUN_PROGRAM)])

\* raydium_cpmm.rs::find_pool_account_index (0-based)
find_pool_account_index(account_keys) ==
    LET ok == {i \in DOMAIN account_keys :
                 /\ account_keys[i] \notin {RAYDIUM_CPMM, TOKEN_PROGRAM, SYSTEM_PROGRAM}
                 /\ ~ContainsOracle(account_keys[i])
                 /\ ~ContainsAuthority(account_keys[i])
                 /\ i - 1 >= 1 /\ i - 1 <= 5}
    IN IF ok = {} THEN 1 ELSE (CHOOSE i \in ok : \A j \in ok : i <= j) - 1

\* raydium_cpmm.rs::find_user_wallet: "" stands for the Err result
find_user_wallet(account_keys) ==
    IF InSeq(account_keys, TARGET_WALLET) THEN TARGET_WALLET
    ELSE LET ok == {i \in DOMAIN account_keys :
                      /\ ~ContainsProgram(account_keys[i])
                      /\ ~ContainsOracle(account_keys[i])
                      /\ ~ContainsAuthority(account_keys[i])
                      /\ account_keys[i] # SYSTEM_PROGRAM}
         IN IF ok = {} THEN ""
            ELSE account_keys[CHOOSE i \in ok : \A j \in ok : i <= j]

cpmm_get_token_decimals(mint) == IF mint = WSOL_MINT THEN 9 ELSE 6

RECURSIVE TipSum(_, _, _, _)
TipSum(pre_balances, post_balances, account_keys, i) ==
    IF i > Len(account_keys) THEN 0
    ELSE (IF /\ ContainsTip(account_keys[i])
             /\ i - 1 < Len(pre_balances) /\ i - 1 < Len(post_balances)
          THEN saturating_sub(post_balances[i], pre_balances[i]) ELSE 0)
         + TipSum(pre_balances, post_balances, account_keys, i + 1)

cpmm_calculate_gas_fee(pre_balances, post_balances, account_keys) ==
    BASE_FEE + TipSum(pre_balances, post_balances, account_keys, 1)

parse_raydium_cpmm_swap(tx, data) ==
    IF Len(data) < 8 THEN ResNone
    ELSE IF SubSeq(data, 1, 8) \notin {RAYDIUM_CPMM_SWAP_BASE_INPUT,
                                       RAYDIUM_CPMM_SWAP_BASE_OUTPUT} THEN ResNone
    ELSE
      LET keys == tx.account_keys
          pool_account_index == find_pool_account_index(keys)
      IN IF pool_account_index >= Len(keys) THEN ResPanic
         ELSE LET user_wallet == find_user_wallet(keys) IN
         IF user_wallet = "" THEN ResErr
         ELSE
           LET d == ScanDeltas(tx.pre_token_balances, tx.post_token_balances,
                               user_wallet, 1, NoDelta)
               token_in_mint == IF d.in_token = "None" THEN WSOL_MINT ELSE d.in_token
               token_out_mint == IF d.out_token = "None" THEN WSOL_MINT ELSE d.out_token
           IN \* calculate_price: Err when the output amount is 0
              IF d.out_amount = 0 THEN ResErr
              ELSE ResSome([signature |-> tx.signature,
                            wallet |-> user_wallet,
                            dex_type |-> "RaydiumCPMM",
                            trade_direction |-> IF d.in_token = WSOL_MINT THEN "Buy"
                                                ELSE "Sell",
                            token_in |-> [mint |-> token_in_mint,
                                          decimals |-> cpmm_get_token_decimals(token_in_mint)],
                            token_out |-> [mint |-> token_out_mint,
                                           decimals |-> cpmm_get_token_decimals(token_out_mint)],
                            amount_in |-> d.in_amount,
                            amount_out |-> d.out_amount,
                            gas_fee |-> cpmm_calculate_gas_fee(tx.pre_balances,
                                                               tx.post_balances, keys),
                            pool_address |-> At(keys, pool_account_index),
                            program_id |-> PoolProgramId(At(keys, pool_account_index),
                                                         RAYDIUM_CPMM)])

\* TransactionParser::parse_transaction_data: the dialect is chosen by scanning
\* the whole account_keys list, not by the instruction's program id
parse_transaction_data(tx, data) ==
    LET dex_type == identify_dex_from_accounts(tx.account_keys)
    IN IF dex_type = "RaydiumAmmV4" THEN parse_raydium_amm_v4_swap(tx, data)
       ELSE IF dex_type = "PumpFun" THEN parse_pump_trade(tx, data)
       ELSE IF dex_type = "RaydiumCPMM" THEN parse_raydium_cpmm_swap(tx, data)
       ELSE IF dex_type = "RaydiumCLMM" THEN parse_raydium_amm_v4_swap(tx, data)
       ELSE ResNone

(***************************************************************************)
(* Stream content: the transactions the feed can deliver.  A signature     *)
(* identifies one transaction, so a redelivery carries the same content.   *)
(***************************************************************************)
Row(idx, mint, owner, amount) ==
    [accountIndex |-> idx, mint |-> mint, owner |-> owner, amount |-> amount,
     decimals |-> IF mint = WSOL_MINT THEN 9 ELSE 6]

SwapData(disc, amount, limit) == <<disc>> \o to_le_bytes(amount) \o to_le_bytes(limit)

\* the 0-based indices first .. last
Indices(first, last) == [j \in 1..(last - first + 1) |-> first + j - 1]

\* a CompiledInstruction: its program, the instruction's accounts (indices into
\* account_keys, in the order the program reads them) and its data
Ix(program_id_index, accounts, data) ==
    [program_id_index |-> program_id_index, accounts |-> accounts, data |-> data]

\* documented bonding-curve layout, the user at index 6, the program at 11
PumpKeys(user) == <<"payer", "fee_recipient", MINT_A, "bonding_curve", "assoc_curve",
                    "user_ata", user, SYSTEM_PROGRAM, TOKEN_PROGRAM, "rent",
                    "event_authority", PUMP_FUN_PROGRAM>>

\* a CPMM swap with three trailing accounts; the fee payer is the first key and
\* the program the last
CpmmKeys(payer, extra) ==
    <<payer, "in_ata", "out_ata", "pool_state", "xauthorityx", "amm_config",
      "observation", "in_vault", "out_vault", TOKEN_PROGRAM, "token_2022",
      WSOL_MINT, MINT_A, extra, "x0slotx", RAYDIUM_CPMM>>

CpmmShortKeys(user) == <<user, "in_ata", "out_ata", "pool_state", "xauthorityx",
                         "amm_config", "observation", RAYDIUM_CPMM>>

AmmKeys(user) == <<user, "amm_id", "amm_authority", "open_orders", "target_orders",
                   "coin_vault", "pc_vault", "user_ata", RAYDIUM_AMM_V4>>

Lamports(n) == [i \in 1..n |-> 1000000]

\* the leader pays WSOL and receives MINT_A
BuyRows(user, sol, tokens) ==
    [pre |-> <<Row(1, WSOL_MINT, user, sol), Row(2, MINT_A, user, 0)>>,
     post |-> <<Row(1, WSOL_MINT, user, 0), Row(2, MINT_A, user, tokens)>>]

\* the leader pays MINT_A and receives WSOL
SellRows(user, tokens, sol) ==
    [pre |-> <<Row(1, MINT_A, user, tokens), Row(2, WSOL_MINT, user, 0)>>,
     post |-> <<Row(1, MINT_A, user, 0), Row(2, WSOL_MINT, user, sol)>>]

\* only the MINT_A account of the user grows (native SOL paid from the base account)
GainRows(user, tokens) ==
    [pre |-> <<Row(5, MINT_A, user, 0)>>,
     post |-> <<Row(5, MINT_A, user, tokens)>>]

MkTx(sig, keys, ixs, rows) ==
    [signature |-> sig, account_keys |-> keys, instructions |-> ixs,
     pre_balances |-> Lamports(Len(keys)), post_balances |-> Lamports(Len(keys)),
     pre_token_balances |-> rows.pre, post_token_balances |-> rows.post]

CpmmData == RAYDIUM_CPMM_SWAP_BASE_INPUT \o to_le_bytes(200000000) \o to_le_bytes(0)

TxUpdates ==
    { MkTx("sigPumpBuy", PumpKeys(LEADER),
           <<Ix(11, Indices(0, 10), <<PUMP_BUY_INSTRUCTION, 1, 2>>),
             Ix(11, Indices(0, 10), <<7>>),
             Ix(11, Indices(0, 10), SwapData(PUMP_BUY_INSTRUCTION, 1000, 150000000))>>,
           BuyRows(LEADER, 150000000, 1000)),
      MkTx("sigPumpGain", PumpKeys(LEADER),
           <<Ix(11, Indices(0, 10), SwapData(PUMP_BUY_INSTRUCTION, 40000000, 1000))>>,
           GainRows(LEADER, 40000000)),
      MkTx("sigPumpStranger", PumpKeys(STRANGER),
           <<Ix(11, Indices(0, 10), SwapData(PUMP_SELL_INSTRUCTION, 1000, 150000000))>>,
           BuyRows(STRANGER, 150000000, 1000)),
      MkTx("sigCpmmSell", CpmmKeys(LEADER, "extra1"), <<Ix(15, Indices(0, 14), CpmmData)>>,
           SellRows(LEADER, 200000000, 1000)),
      MkTx("sigCpmmPaidByFollower", CpmmKeys(FOLLOWER, LEADER), <<Ix(15, Indices(0, 14), CpmmData)>>,
           SellRows(LEADER, 200000000, 1000)),
      MkTx("sigCpmmShort", CpmmShortKeys(LEADER), <<Ix(7, Indices(0, 6), CpmmData)>>,
           BuyRows(LEADER, 150000000, 1000)),
      MkTx("sigAmm", AmmKeys(LEADER),
           <<Ix(7, Indices(0, 2), <<1, 2, 3>>), Ix(12, Indices(0, 7), <<RAYDIUM_AMM_SWAP_INSTRUCTION>>),
             Ix(8, Indices(0, 7), SwapData(RAYDIUM_AMM_SWAP_INSTRUCTION, 150000000, 1))>>,
           GainRows(LEADER, 1000)) }

Signatures == {tx.signature : tx \in TxUpdates}

\* what parse_transaction_data returns for each instruction of each deliverable
\* transaction (the decoders are pure functions of the transaction)
Decoded ==
    [sig \in Signatures |->
        LET tx == CHOOSE t \in TxUpdates : t.signature = sig
        IN [i \in DOMAIN tx.instructions |->
               parse_transaction_data(tx, tx.instructions[i].data)]]

(***************************************************************************)
(* State                                                                   *)
(***************************************************************************)
VARIABLES
    config,                  \* TradeExecutionConfig + target_wallet, fixed after start
    monitor,                 \* position of start_monitoring / monitor_loop
    updates,                 \* number of Transaction updates received so far
    received,                \* history: the Transaction updates the stream yielded,
                             \* in order, and what process_transaction did with each
    dispatching,             \* where process_transaction stands while the subscriber
                             \* is between a tokio::spawn and the save that follows it
    processed_instructions,  \* GrpcMonitor.processed_instructions
    journal,                 \* records appended by TradeRecorder
    tasks,                   \* the detached executor tasks (tokio::spawn)
    chain,                   \* follower accounts on chain
    sent,                    \* transactions submitted through the RPC client,
                             \* numbered per task
    dispatchLog,             \* history: what became of each dispatched instruction
    external,                \* number of balance changes made outside the program
    build                    \* the pure-function harness: one call of an executor
                             \* builder or of encode-then-decode, its arguments
                             \* and its result

vars == <<config, monitor, updates, received, dispatching, processed_instructions,
          journal, tasks, chain, sent, dispatchLog, external, build>>

\* everything but the harness
pipeline == <<config, monitor, updates, received, dispatching, processed_instructions,
              journal, tasks, chain, sent, dispatchLog, external>>

\* TradeExecutionConfig plus the leader; the f64 SOL amounts are in tenths of
\* a lamport
Config(enabled, min_trade_amount, max_trade_amount) ==
    [enabled |-> enabled, min_trade_amount |-> min_trade_amount,
     max_trade_amount |-> max_trade_amount, target_wallet |-> LEADER]

\* main.rs::check_wsol_balance_or_exit: the process only starts when the
\* follower's wrapped-native ATA holds at least 0.01 SOL
MIN_WSOL_AT_START == 10000000

Ata(exists, amount) == [exists |-> exists, amount |-> amount]

\* a follower with 0.5 SOL, no ATA for MINT_A, and MINT_A tokens in two other
\* token accounts
RichChain ==
    [sol |-> 500000000,
     ata |-> (WSOL_MINT :> Ata(TRUE, MIN_WSOL_AT_START) @@ MINT_A :> Ata(FALSE, 0)),
     other_accounts |-> (WSOL_MINT :> <<>> @@ MINT_A :> <<100000000, 100000000>>)]

\* a follower with 0.05 SOL and 20 units of MINT_A over three token accounts
PoorChain ==
    [sol |-> 50000000,
     ata |-> (WSOL_MINT :> Ata(TRUE, MIN_WSOL_AT_START) @@ MINT_A :> Ata(TRUE, 10)),
     other_accounts |-> (WSOL_MINT :> <<>> @@ MINT_A :> <<5, 5>>)]

\* the configurations and follower accounts the engine is started with
Deployments ==
    { <<Config(TRUE, 1000000000, 1000000000), RichChain>>,   \* min = max = 0.1 SOL
      <<Config(TRUE, 1000000000, 1000000000), PoorChain>>,
      <<Config(TRUE, 100000000, 100000005), RichChain>>,     \* 0.01 SOL, half a lamport apart
      <<Config(TRUE, 500000000, 1500000000), RichChain>>,    \* 0.05 .. 0.15 SOL
      <<Config(TRUE, 100000000, 1000000000), PoorChain>>,    \* 0.01 .. 0.10 SOL
      <<Config(FALSE, 1000000000, 1000000000), RichChain>> }

\* the subscriber is not inside process_transaction
Idle == [signature |-> "", next |-> 0, trade |-> NoTrade]

\* no harness call: the pipeline runs
BuildIdle == [fn |-> "none", args |-> <<>>, done |-> TRUE, result |-> <<>>]

Init ==
    /\ \E d \in Deployments : config = d[1] /\ chain = d[2]
    /\ monitor = "connecting"
    /\ updates = 0
    /\ received = <<>>
    /\ dispatching = Idle
    /\ processed_instructions = {}
    /\ journal = <<>>
    /\ tasks = <<>>
    /\ sent = {}
    /\ dispatchLog = <<>>
    /\ external = 0
    /\ build = BuildIdle

(***************************************************************************)
(* Dedup & dispatch: GrpcMonitor::process_transaction, handle_parsed_trade *)
(***************************************************************************)
\* a program filter that also lets instructions of the token-account key through
TrackedPrograms_AndUserAta ==
    {RAYDIUM_AMM_V4, RAYDIUM_CPMM, RAYDIUM_CLMM, PUMP_FUN_PROGRAM, "user_ata"}

\* the four programs process_transaction lets through
TrackedPrograms == {RAYDIUM_AMM_V4, RAYDIUM_CPMM, RAYDIUM_CLMM, PUMP_FUN_PROGRAM}

Pending == [kind |-> "Pending", original_signature |-> "", copy_signature |-> "",
            success |-> FALSE, error |-> "", amount_in |-> 0]

NewTask(key, kind, trade, account_keys) ==
    [key |-> key, kind |-> kind, trade |-> trade,
     account_keys |-> account_keys,
     pc |-> IF kind = "cpmm" THEN "ata_in_check" ELSE "start",
     forced |-> FALSE, trade_amount_sol |-> 0, required |-> 0,
     token_balance |-> -1, wsol_balance |-> -1, sol_balance |-> -1,
     passed |-> {}, result |-> Pending]

\* TradeRecorder::record_trade
TradeRecord(trade) ==
    [original_signature |-> trade.signature, copy_signature |-> "None",
     trade_direction |-> trade.trade_direction, dex_type |-> trade.dex_type,
     amount_in |-> trade.amount_in, amount_out |-> trade.amount_out,
     success |-> TRUE]

\* a dispatcher that does not compare the trade's wallet with the leader
SpawnKind_AnyWallet(cfg, trade, account_keys) ==
    IF trade.dex_type = "RaydiumCPMM"
    THEN IF Len(account_keys) >= 16 THEN "cpmm" ELSE "none"
    ELSE IF trade.dex_type = "PumpFun"
         THEN IF Len(account_keys) >= 11 THEN "pump" ELSE "none"
    ELSE "none"

\* which executor task handle_parsed_trade spawns for a trade: "cpmm", "pump"
\* or "none"
SpawnKind(cfg, trade, account_keys) ==
    IF trade.wallet # cfg.target_wallet THEN "none"
    ELSE IF trade.dex_type = "RaydiumCPMM"
         THEN IF Len(account_keys) >= 16 THEN "cpmm" ELSE "none"
    ELSE IF trade.dex_type = "PumpFun"
         THEN IF Len(account_keys) >= 11 THEN "pump" ELSE "none"
    ELSE "none"

\* the history entry of one dispatched instruction: what became of it, and
\* whether the dedup mutex was held when that was decided (for a decoded
\* instruction: when the decoder ran and handle_parsed_trade was called)
Logged(st, key, outcome) ==
    [st EXCEPT !.log = Append(@, [key |-> key, outcome |-> outcome,
                                  locked |-> st.locked])]

\* self.processed_instructions.lock().unwrap()
DedupLock(st) == [st EXCEPT !.locked = TRUE]

\* a dedup step that keeps the guard alive to the end of the loop body
DedupRelease_AtEndOfBody(st) == st

\* the guard is dropped: by drop(processed) after the insert, by leaving the
\* loop body at the continue
DedupRelease(st) == [st EXCEPT !.locked = FALSE]

\* save_trade_for_analysis appends the trade through the recorder
\* run_normal_mode configures
save_trade_for_analysis(st, trade) ==
    [st EXCEPT !.journal = Append(@, TradeRecord(trade))]

\* a dispatcher that journals a trade only inside the leader branch
handle_parsed_trade_JournalLeaderOnly(cfg, st, key, trade, account_keys) ==
    LET kind == SpawnKind(cfg, trade, account_keys)
        outcome == IF trade.wallet # cfg.target_wallet THEN "NotLeader"
                   ELSE IF kind = "none" THEN "Skipped" ELSE "Spawned"
        branched == Logged(st, key, outcome)
    IN IF trade.wallet # cfg.target_wallet THEN branched
       ELSE IF kind = "none" THEN save_trade_for_analysis(branched, trade)
       ELSE [branched EXCEPT !.tasks = Append(@, NewTask(key, kind, trade, account_keys)),
                             !.saving = <<trade>>]

\* the leader branch spawns the executor task (or not); the last statement,
\* on every path, is save_trade_for_analysis.  When a task was spawned it is
\* already running while the save has still to be made: the state returned is
\* the one at the spawn, with the trade left in "saving"
handle_parsed_trade(cfg, st, key, trade, account_keys) ==
    LET kind == SpawnKind(cfg, trade, account_keys)
        outcome == IF trade.wallet # cfg.target_wallet THEN "NotLeader"
                   ELSE IF kind = "none" THEN "Skipped" ELSE "Spawned"
        branched == Logged(st, key, outcome)
    IN IF kind = "none" THEN save_trade_for_analysis(branched, trade)
       ELSE [branched EXCEPT !.tasks = Append(@, NewTask(key, kind, trade, account_keys)),
                             !.saving = <<trade>>]

\* a dedup step that forgets to insert the key
DedupInsert_Forget(processed, key) == processed

\* the dedup step: contains, then insert, under the mutex
DedupInsert(processed, key) == processed \cup {key}

RECURSIVE DispatchFrom(_, _, _, _)

\* after handle_parsed_trade for instruction i: the loop stops at a spawn, with
\* the save still to be made, and goes on to instruction i + 1 otherwise
AfterTrade(cfg, tx, i, st) ==
    IF st.saving # <<>> THEN [st EXCEPT !.resume = i + 1]
    ELSE DispatchFrom(cfg, tx, i + 1, st)

\* the match on the decoder's result for instruction i
DispatchDecoded(cfg, tx, i, st, res) ==
    LET key == <<tx.signature, i>>
    IN IF res.kind = "Some"
       THEN AfterTrade(cfg, tx, i,
                handle_parsed_trade(cfg, st, key, res.trade, tx.account_keys))
       ELSE IF res.kind = "Panic"
       THEN [Logged(st, key, "Panic") EXCEPT !.crashed = TRUE]
       ELSE DispatchFrom(cfg, tx, i + 1,
                Logged(st, key, res.kind))

DispatchFrom(cfg, tx, i, st) ==
    IF i >= Len(tx.instructions) THEN st
    ELSE
      LET ix == At(tx.instructions, i)
          key == <<tx.signature, i>>
          skip(outcome) == DispatchFrom(cfg, tx, i + 1,
                              Logged(st, key, outcome))
      IN IF ix.program_id_index >= Len(tx.account_keys) THEN skip("Filtered")
         ELSE IF At(tx.account_keys, ix.program_id_index) \notin TrackedPrograms
              THEN skip("Filtered")
         ELSE IF key \in DedupLock(st).processed
              THEN DispatchFrom(cfg, tx, i + 1,
                       Logged(DedupRelease(DedupLock(st)), key, "Deduped"))
         ELSE DispatchDecoded(cfg, tx, i,
                  DedupRelease([DedupLock(st) EXCEPT !.processed = DedupInsert(@, key)]),
                  Decoded[tx.signature][i + 1])

\* the loop over the instructions of one update, from its first instruction up
\* to the first spawn or the end
process_transaction(cfg, tx, processed, jrnl, tsks, log) ==
    DispatchFrom(cfg, tx, 0, [processed |-> processed, journal |-> jrnl, tasks |-> tsks,
                              log |-> log, crashed |-> FALSE, locked |-> FALSE, saving |-> <<>>,
                              resume |-> 0])

\* where the subscriber stands after a run of the loop
DispatchPosition(tx, st) ==
    IF st.saving = <<>> THEN Idle
    ELSE [signature |-> tx.signature, next |-> st.resume, trade |-> st.saving[1]]

\* updates whose transaction body (or its message) or whose meta is absent
IncompleteUpdates ==
    { [signature |-> "sigIncomplete", transaction |-> FALSE, meta |-> TRUE],
      [signature |-> "sigIncomplete", transaction |-> TRUE, meta |-> FALSE] }

(***************************************************************************)
(* Stream subscriber: start_monitoring / monitor_loop / process_message    *)
(***************************************************************************)
\* monitor_loop connects and subscribes (subscribe_once, else the fallback)
Connect ==
    /\ monitor = "connecting"
    /\ \E ok \in BOOLEAN : monitor' = IF ok THEN "streaming" ELSE "sleeping"
    /\ UNCHANGED <<build, received, dispatching, config, updates, processed_instructions, journal, tasks, chain,
                   sent, dispatchLog, external>>

\* the subscriber's state after a run of the loop of process_transaction
AfterDispatch(tx, st) ==
    /\ processed_instructions' = st.processed
    /\ journal' = st.journal
    /\ tasks' = st.tasks
    /\ dispatchLog' = st.log
    /\ monitor' = IF st.crashed THEN "crashed" ELSE monitor
    /\ dispatching' = DispatchPosition(tx, st)

\* a subscriber that takes the next message while process_message is running
SubscriberIdle_Always == TRUE

\* a subscriber that awaits the executor tasks before it takes the next message
SubscriberIdle_AwaitsTasks ==
    /\ dispatching = Idle
    /\ \A i \in DOMAIN tasks : tasks[i].pc = "done"

\* monitor_loop awaits process_message inside the while-let loop: it is back at
\* stream.next() only when the handler has returned
SubscriberIdle == dispatching = Idle

\* stream.next() yields a Transaction update: process_message, process_transaction.
\* An update without transaction body, message or meta falls through the
\* if-lets: nothing is done and nothing is logged
ReceiveTransaction ==
    /\ monitor = "streaming"
    /\ SubscriberIdle
    /\ updates < MaxUpdates
    /\ \/ \E tx \in TxUpdates :
            /\ AfterDispatch(tx, process_transaction(config, tx, processed_instructions,
                                                     journal, tasks, dispatchLog))
            /\ received' = Append(received, [signature |-> tx.signature,
                                             handled |-> "dispatched"])
       \/ \E u \in IncompleteUpdates :
            /\ received' = Append(received, [signature |-> u.signature,
                                             handled |-> "dropped"])
            /\ UNCHANGED <<processed_instructions, journal, tasks, dispatchLog,
                           monitor, dispatching>>
    /\ updates' = updates + 1
    /\ UNCHANGED <<build, config, chain, sent, external>>

\* handle_parsed_trade reaches its last statement, save_trade_for_analysis, after
\* a spawn; the loop of process_transaction then goes on with the instructions
\* that are left
SaveTrade ==
    /\ dispatching # Idle
    /\ \E tx \in TxUpdates :
         /\ tx.signature = dispatching.signature
         /\ AfterDispatch(tx,
               DispatchFrom(config, tx, dispatching.next,
                   save_trade_for_analysis(
                       [processed |-> processed_instructions, journal |-> journal,
                        tasks |-> tasks, log |-> dispatchLog, crashed |-> FALSE, locked |-> FALSE,
                        saving |-> <<>>, resume |-> 0],
                       dispatching.trade)))
    /\ UNCHANGED <<build, config, updates, received, chain, sent, external>>

\* the stream yields an error (monitor_loop returns Err) or ends (returns Ok)
StreamEnds ==
    /\ monitor = "streaming"
    /\ SubscriberIdle
    /\ monitor' = "sleeping"
    /\ UNCHANGED <<build, received, dispatching, config, updates, processed_instructions, journal, tasks,
                   chain, sent, dispatchLog, external>>

\* a start_monitoring that returns after the sleep instead of looping
SleepDone_Returns ==
    /\ monitor = "sleeping"
    /\ monitor' = "returned"
    /\ UNCHANGED <<build, received, dispatching, config, updates, processed_instructions, journal, tasks,
                   chain, sent, dispatchLog, external>>

\* tokio::time::sleep(5 s) returns and the loop calls monitor_loop again
SleepDone ==
    /\ monitor = "sleeping"
    /\ monitor' = "connecting"
    /\ UNCHANGED <<build, received, dispatching, config, updates, processed_instructions, journal, tasks,
                   chain, sent, dispatchLog, external>>

(***************************************************************************)
(* Executor: instruction assembly (trade_executor.rs)                      *)
(***************************************************************************)
\* spl_associated_token_account::get_associated_token_address(follower, mint)
get_associated_token_address(mint) ==
    IF mint = WSOL_MINT THEN "FollowerAta_WSOL"
    ELSE IF mint = MINT_A THEN "FollowerAta_MintA"
    ELSE "FollowerAta_Unknown"

Meta(pubkey, is_signer, is_writable) ==
    [pubkey |-> pubkey, is_signer |-> is_signer, is_writable |-> is_writable]

ZERO_PUBKEY == "00000000_ZERO"

RENT_SYSVAR == "SysvarRent"

\* handle_parsed_trade builds RaydiumCpmmSwapAccounts from account_keys[0..12]
\* and extra_accounts from account_keys[13..]
create_raydium_cpmm_swap_instructions_v2_static(trade, account_keys) ==
    [program_id |-> trade.program_id,
     data |-> Zeros(16),
     accounts |->
        << Meta(At(account_keys, 0), TRUE, TRUE),      \* payer
           Meta(At(account_keys, 1), FALSE, TRUE),     \* user_input_ata
           Meta(At(account_keys, 2), FALSE, TRUE),     \* user_output_ata
           Meta(At(account_keys, 3), FALSE, TRUE),     \* pool_state
           Meta(At(account_keys, 4), FALSE, FALSE),    \* authority
           Meta(At(account_keys, 5), FALSE, FALSE),    \* amm_config
           Meta(At(account_keys, 6), FALSE, FALSE),    \* observation_state
           Meta(At(account_keys, 7), FALSE, TRUE),     \* input_vault
           Meta(At(account_keys, 8), FALSE, TRUE),     \* output_vault
           Meta(At(account_keys, 9), FALSE, FALSE),    \* input_token_program
           Meta(At(account_keys, 10), FALSE, FALSE),   \* output_token_program
           Meta(At(account_keys, 11), FALSE, FALSE),   \* input_mint
           Meta(At(account_keys, 12), FALSE, FALSE) >> \* output_mint
        \o [j \in 1..(Len(account_keys) - 13) |->
              Meta(account_keys[13 + j], FALSE, FALSE)]]

\* the argument bytes the executor writes: the discriminator byte, then both
\* u64 little-endian (trade_executor.rs 438-440 and 527-529)
encode_swap_args_LimitFirst(disc, amount, limit) ==
    <<disc>> \o u64_to_le_bytes(limit) \o u64_to_le_bytes(amount)

encode_swap_args(disc, amount, limit) ==
    <<disc>> \o u64_to_le_bytes(amount) \o u64_to_le_bytes(limit)

\* spl_associated_token_account::instruction::create_associated_token_account
\* for the follower's ATA of `mint` (the plain, non-idempotent instruction)
create_associated_token_account(mint) ==
    [program_id |-> "AssociatedTokenProgram",
     data |-> <<>>,
     accounts |-> <<Meta(FOLLOWER, TRUE, TRUE),
                    Meta(get_associated_token_address(mint), FALSE, TRUE)>>]

\* RaydiumPoolAccounts from 14 pubkeys in declaration order
RaydiumPoolAccounts(k) ==
    [amm_id |-> k[1], amm_authority |-> k[2], amm_open_orders |-> k[3],
     amm_target_orders |-> k[4], pool_coin_token_account |-> k[5],
     pool_pc_token_account |-> k[6], serum_program_id |-> k[7],
     serum_market |-> k[8], serum_bids |-> k[9], serum_asks |-> k[10],
     serum_event_queue |-> k[11], serum_coin_vault_account |-> k[12],
     serum_pc_vault_account |-> k[13], serum_vault_signer |-> k[14]]

\* the swap instruction of create_raydium_cpmm_instructions (the AMM v4
\* builder, whatever its name says)
AmmV4SwapInstruction(trade, pool, min_amount_out) ==
    [program_id |-> trade.program_id,
     data |-> encode_swap_args(9, U64Limbs(trade.amount_in), U64Limbs(min_amount_out)),
     accounts |->
        << Meta(FOLLOWER, TRUE, TRUE),
           Meta(get_associated_token_address(trade.token_in.mint), FALSE, TRUE),
           Meta(get_associated_token_address(trade.token_out.mint), FALSE, TRUE),
           Meta(pool.amm_id, FALSE, TRUE),
           Meta(pool.amm_authority, FALSE, TRUE),
           Meta(pool.amm_open_orders, FALSE, TRUE),
           Meta(pool.amm_target_orders, FALSE, TRUE),
           Meta(pool.pool_coin_token_account, FALSE, TRUE),
           Meta(pool.pool_pc_token_account, FALSE, TRUE),
           Meta(pool.serum_program_id, FALSE, TRUE),
           Meta(pool.serum_market, FALSE, TRUE),
           Meta(pool.serum_bids, FALSE, TRUE),
           Meta(pool.serum_asks, FALSE, TRUE),
           Meta(pool.serum_event_queue, FALSE, TRUE),
           Meta(pool.serum_coin_vault_account, FALSE, TRUE),
           Meta(pool.serum_pc_vault_account, FALSE, TRUE),
           Meta(pool.serum_vault_signer, FALSE, TRUE),
           Meta(TOKEN_PROGRAM, FALSE, FALSE),
           Meta(RENT_SYSVAR, FALSE, FALSE) >>]

\* the builder with the two ATAs ahead of the user in the swap instruction
create_raydium_cpmm_instructions_AtasFirst(trade, pool, min_amount_out) ==
    LET ix == AmmV4SwapInstruction(trade, pool, min_amount_out)
        a == ix.accounts
    IN << create_associated_token_account(trade.token_in.mint),
          create_associated_token_account(trade.token_out.mint),
          [ix EXCEPT !.accounts = <<a[2], a[3], a[1]>> \o SubSeq(a, 4, Len(a))] >>

\* create_raydium_cpmm_instructions: two create-ATA instructions, then the swap
create_raydium_cpmm_instructions(trade, pool, min_amount_out) ==
    << create_associated_token_account(trade.token_in.mint),
       create_associated_token_account(trade.token_out.mint),
       AmmV4SwapInstruction(trade, pool, min_amount_out) >>

\* instruction_type of create_pump_instructions
pump_instruction_type_Swapped(trade_direction) ==
    IF trade_direction = "Buy" THEN 51 ELSE 102

pump_instruction_type(trade_direction) ==
    IF trade_direction = "Buy" THEN 102 ELSE 51     \* 0x66u8, 0x33u8

\* create_pump_instructions: the swap instruction (the create-ATA instruction
\* pushed before it is part of the same transaction, see PumpSwapAccepted)
create_pump_instructions(trade, accounts, max_sol_cost) ==
    [program_id |-> trade.program_id,
     data |-> encode_swap_args(pump_instruction_type(trade.trade_direction),
                               U64Limbs(trade.amount_in), U64Limbs(max_sol_cost)),
     accounts |->
        << Meta(FOLLOWER, TRUE, TRUE),
           Meta(accounts.fee_recipient, FALSE, TRUE),
           Meta(accounts.mint, FALSE, TRUE),
           Meta(accounts.bonding_curve, FALSE, TRUE),
           Meta(accounts.associated_bonding_curve, FALSE, TRUE),
           Meta(get_associated_token_address(trade.token_in.mint), FALSE, TRUE),
           Meta(FOLLOWER, TRUE, TRUE),
           Meta(SYSTEM_PROGRAM, FALSE, FALSE),
           Meta(TOKEN_PROGRAM, FALSE, FALSE),
           Meta(RENT_SYSVAR, FALSE, FALSE),
           Meta(accounts.event_authority, FALSE, TRUE),
           Meta(trade.program_id, FALSE, TRUE) >>]

\* the accounts execute_pump_trade passes: all Pubkey::new_from_array([0; 32])
ZeroPumpAccounts ==
    [fee_recipient |-> ZERO_PUBKEY, mint |-> ZERO_PUBKEY, bonding_curve |-> ZERO_PUBKEY,
     associated_bonding_curve |-> ZERO_PUBKEY, event_authority |-> ZERO_PUBKEY]

NoInstruction == [program_id |-> "", data |-> <<>>, accounts |-> <<>>]

\* one send_and_confirm_transaction call; `passed` is the set of gate steps the
\* sending task had gone through when it sent
Submission(task, kind, protocol, mint, lamports, instruction, ok, passed) ==
    [task |-> task, n |-> Cardinality({x \in sent : x.task = task}),
     kind |-> kind, protocol |-> protocol, mint |-> mint,
     lamports |-> lamports, instruction |-> instruction, ok |-> ok, passed |-> passed]

(***************************************************************************)
(* Executor: results                                                       *)
(***************************************************************************)
\* an ExecutedTrade value; error "" is error_message: None
Executed(trade, copy_signature, success, error) ==
    [kind |-> "Executed", original_signature |-> trade.signature,
     copy_signature |-> copy_signature,
     success |-> success, error |-> error, amount_in |-> trade.amount_in]

\* the ExecutedTrade of the return sites that send nothing (lines 105, 126, 141,
\* 182, 208, 259, 277): copy_signature "", success false, a reason
Skipped(trade, reason) == Executed(trade, "", FALSE, reason)

\* signature.to_string() of the Signature send_and_confirm_transaction returns
MirrorSignature == "mirror_signature"

\* a submitter that reports the locally computed signature also when the chain
\* returned an error
SendResult_KeepsSignature(trade, ok) ==
    Executed(trade, MirrorSignature, ok, IF ok THEN "" ELSE "send_failed")

\* the match on send_and_confirm_transaction in execute_pump_trade and
\* execute_raydium_cpmm_trade_static: Ok(signature) or Err(e)
SendResult(trade, ok) ==
    IF ok THEN Executed(trade, MirrorSignature, TRUE, "")
    ELSE Executed(trade, "", FALSE, "send_failed")

\* the function returns Err(..): no ExecutedTrade value exists
BareError == [Pending EXCEPT !.kind = "Err"]

\* the spawned closure returns () after a failed ATA creation
Returned == [Pending EXCEPT !.kind = "Returned"]

\* the task panicked: tokio drops it, nothing is returned
Panicked == [Pending EXCEPT !.kind = "Panicked"]

\* Transaction::sign(&[wallet], blockhash): the follower's keypair is the only
\* one given, so signing succeeds only when no other account is marked signer;
\* otherwise sign panics (NotEnoughSigners)
SignAccepted(instruction) ==
    \A m \in DOMAIN instruction.accounts :
       instruction.accounts[m].is_signer => instruction.accounts[m].pubkey = FOLLOWER

\* the task's future completes: its locals are dropped, the result remains
\* the set of submissions grows by one
Send(sub) == sent \cup {sub}

Finish(t, res) ==
    [NewTask(t.key, t.kind, t.trade, t.account_keys) EXCEPT !.pc = "done", !.result = res]

\* an executor that sends the swap again when the chain returned an error
AfterSend_Retry(t, trade, ok) == IF ok THEN Finish(t, SendResult(trade, ok)) ELSE t

\* the executor function returns what the match produced: one send per call
AfterSend(t, trade, ok) == Finish(t, SendResult(trade, ok))

SetTask(i, t) == tasks' = [tasks EXCEPT ![i] = t]

RECURSIVE SumSeq(_)
SumSeq(q) == IF q = <<>> THEN 0 ELSE Head(q) + SumSeq(Tail(q))

\* the sum over get_token_accounts_by_owner(follower, Mint(mint))
total_token_balance(ch, mint) ==
    (IF ch.ata[mint].exists THEN ch.ata[mint].amount ELSE 0)
    + SumSeq(ch.other_accounts[mint])

Abs(x) == IF x < 0 THEN -x ELSE x

\* `amount as f64 / 1_000_000_000.0`
lamports_to_sol(amount) == amount * 10

\* trade_forced_amount_in_lamports: `(sol * 1_000_000_000.0) as u64`
trade_forced_amount_in_lamports(trade_amount_sol) == trade_amount_sol \div 10

\* (max_trade_amount - min_trade_amount).abs() < 1e-9
IsForced(cfg) == Abs(cfg.max_trade_amount - cfg.min_trade_amount) < 10

need_wsol(trade) ==
    \/ trade.trade_direction = "Buy" /\ trade.token_in.mint = WSOL_MINT
    \/ trade.trade_direction = "Sell" /\ trade.token_out.mint = WSOL_MINT

(***************************************************************************)
(* Executor task of the bonding-curve branch: TradeExecutor::execute_trade *)
(***************************************************************************)
\* lines 104-157: enablement and the size clamp.  No RPC call and no shared
\* state is involved, so a task that passes runs on into its first RPC call.
Gate(cfg, t) ==
    LET trade == t.trade
        forced == IsForced(cfg)
        trade_amount_sol == IF forced THEN cfg.max_trade_amount
                            ELSE lamports_to_sol(trade.amount_in)
    IN IF ~cfg.enabled THEN Finish(t, Skipped(trade, "disabled"))
       ELSE IF trade_amount_sol < cfg.min_trade_amount
            THEN Finish(t, Skipped(trade, "below_min"))
       ELSE IF trade_amount_sol > cfg.max_trade_amount /\ ~forced
            THEN Finish(t, Skipped(trade, "above_max"))
       ELSE [t EXCEPT !.forced = forced,
                      !.trade_amount_sol = trade_amount_sol,
                      !.required = trade_forced_amount_in_lamports(trade_amount_sol),
                      !.passed = @ \cup {"enabled", "size"},
                      !.pc = IF trade.trade_direction = "Sell" THEN "sell_check"
                             ELSE "wsol_check"]

\* the task as it stands at its next RPC call
Entered(t) == IF t.pc = "start" THEN Gate(config, t) ELSE t

\* execute_trade returns from the gate with a skipped ExecutedTrade
ExecStart(i) ==
    /\ tasks[i].pc = "start"
    /\ Entered(tasks[i]).pc = "done"
    /\ SetTask(i, Entered(tasks[i]))
    /\ UNCHANGED <<build, received, dispatching, config, monitor, updates, processed_instructions, journal,
                   chain, sent, dispatchLog, external>>

\* lines 159-195: the sell-side balance check
ExecSellCheck(i) ==
    /\ Entered(tasks[i]).pc = "sell_check"
    /\ \E rpcOk \in BOOLEAN :
         LET t == Entered(tasks[i])
             total == total_token_balance(chain, t.trade.token_in.mint)
         IN SetTask(i,
              IF ~rpcOk THEN Finish(t, BareError)
              ELSE IF total < t.required
                   THEN Finish([t EXCEPT !.token_balance = total],
                               Skipped(t.trade, "no_token_balance"))
              ELSE [t EXCEPT !.token_balance = total,
                             !.passed = @ \cup {"sell_balance"},
                             !.pc = "wsol_check"])
    /\ UNCHANGED <<build, received, dispatching, config, monitor, updates, processed_instructions, journal,
                   chain, sent, dispatchLog, external>>

\* lines 197-204: is wrapped-native needed, and how much is there
ExecWsolCheck(i) ==
    /\ Entered(tasks[i]).pc = "wsol_check"
    /\ \E rpcOk \in BOOLEAN :
         LET t == Entered(tasks[i])
             wsol_balance == IF rpcOk /\ chain.ata[WSOL_MINT].exists
                             THEN chain.ata[WSOL_MINT].amount ELSE 0
         IN SetTask(i,
              IF ~need_wsol(t.trade)
              THEN [t EXCEPT !.passed = @ \cup {"wsol"}, !.pc = "swap"]
              ELSE IF wsol_balance < t.required
                   THEN [t EXCEPT !.wsol_balance = wsol_balance, !.pc = "sol_check"]
              ELSE [t EXCEPT !.wsol_balance = wsol_balance,
                             !.passed = @ \cup {"wsol"},
                             !.pc = "swap"])
    /\ UNCHANGED <<build, received, dispatching, config, monitor, updates, processed_instructions, journal,
                   chain, sent, dispatchLog, external>>

\* lines 205-220: the base lamport balance
ExecSolCheck(i) ==
    /\ tasks[i].pc = "sol_check"
    /\ \E rpcOk \in BOOLEAN :
         LET t == tasks[i]
         IN SetTask(i,
              IF ~rpcOk THEN Finish(t, BareError)
              ELSE IF chain.sol < t.required
                   THEN Finish([t EXCEPT !.sol_balance = chain.sol],
                               Skipped(t.trade, "sol_insufficient"))
              ELSE [t EXCEPT !.sol_balance = chain.sol, !.pc = "wrap"])
    /\ UNCHANGED <<build, received, dispatching, config, monitor, updates, processed_instructions, journal,
                   chain, sent, dispatchLog, external>>

\* What the chain does with the wrap transaction [create_associated_token_account,
\* transfer(shortfall), sync_native]: the create instruction is the plain
\* (non-idempotent) one, which fails when the account exists, and a failing
\* instruction fails the whole transaction.
WrapCreateAccepted(ataExists) == ~ataExists

WrapAccepted(ch, shortfall) ==
    /\ WrapCreateAccepted(ch.ata[WSOL_MINT].exists)
    /\ ch.sol >= shortfall

\* lines 221-243: wrap the shortfall
ExecWrap(i) ==
    /\ tasks[i].pc = "wrap"
    /\ \E blockhashOk \in BOOLEAN, netOk \in BOOLEAN :
         LET t == tasks[i]
             shortfall == t.required - t.wsol_balance
             ok == netOk /\ WrapAccepted(chain, shortfall)
         IN IF ~blockhashOk
            THEN /\ SetTask(i, Finish(t, BareError))
                 /\ UNCHANGED <<chain, sent>>
            ELSE /\ sent' = Send(Submission(i, "wrap", "system", WSOL_MINT,
                                                    shortfall, NoInstruction, ok,
                                                    t.passed))
                 /\ IF ok
                    THEN /\ chain' = [chain EXCEPT
                                        !.sol = @ - shortfall,
                                        !.ata[WSOL_MINT] = Ata(TRUE, @.amount + shortfall)]
                         /\ SetTask(i, [t EXCEPT !.passed = @ \cup {"wsol"}, !.pc = "swap"])
                    ELSE /\ chain' = chain
                         /\ SetTask(i, Finish(t, BareError))
    /\ UNCHANGED <<build, received, dispatching, config, monitor, updates, processed_instructions, journal,
                   dispatchLog, external>>

\* the bonding-curve transaction starts with a plain create-ATA instruction for
\* token_in.mint
PumpSwapAccepted(ch, trade) == ~ch.ata[trade.token_in.mint].exists

\* lines 252-290 and execute_pump_trade
ExecSwap(i) ==
    /\ tasks[i].pc = "swap"
    /\ \E blockhashOk \in BOOLEAN, netOk \in BOOLEAN :
         LET t == tasks[i]
             trade == t.trade
             trade_for_exec ==
                IF t.forced
                THEN [trade EXCEPT !.amount_in = trade_forced_amount_in_lamports(t.trade_amount_sol)]
                ELSE trade
             ix == create_pump_instructions(trade_for_exec, ZeroPumpAccounts, 0)
             ok == netOk /\ PumpSwapAccepted(chain, trade_for_exec)
         IN IF trade.dex_type = "RaydiumCPMM"
            THEN /\ SetTask(i, Finish(t, Skipped(trade, "cpmm_disabled")))
                 /\ UNCHANGED <<chain, sent>>
            ELSE IF trade.dex_type # "PumpFun"
            THEN /\ SetTask(i, Finish(t, Skipped(trade, "unsupported_dex")))
                 /\ UNCHANGED <<chain, sent>>
            ELSE IF ~blockhashOk
            THEN /\ SetTask(i, Finish(t, BareError))
                 /\ UNCHANGED <<chain, sent>>
            ELSE /\ sent' = Send(Submission(i, "swap", "pump", trade.token_in.mint,
                                                    0, ix, ok, t.passed))
                 /\ chain' = IF ok THEN [chain EXCEPT !.ata[trade.token_in.mint].exists = TRUE]
                             ELSE chain
                 /\ SetTask(i, AfterSend(t, trade_for_exec, ok))
    /\ UNCHANGED <<build, received, dispatching, config, monitor, updates, processed_instructions, journal,
                   dispatchLog, external>>

(***************************************************************************)
(* Executor task of the CPMM branch (grpc_monitor.rs, the spawned closure) *)
(***************************************************************************)
AtaMint(t) == IF t.pc \in {"ata_in_check", "ata_in_create"} THEN t.trade.token_in.mint
              ELSE t.trade.token_out.mint

AfterAta(t) == IF t.pc \in {"ata_in_check", "ata_in_create"} THEN "ata_out_check"
               ELSE "cpmm_send"

AtaPassed(t) == IF t.pc \in {"ata_out_check", "ata_out_create"} THEN {"ata"} ELSE {}

\* ensure_ata_exists_static, first half: get_account_with_commitment
EnsureAtaCheck(i) ==
    /\ tasks[i].pc \in {"ata_in_check", "ata_out_check"}
    /\ \E rpcOk \in BOOLEAN :
         LET t == tasks[i]
         IN SetTask(i,
              IF ~rpcOk THEN Finish(t, Returned)
              ELSE IF chain.ata[AtaMint(t)].exists
                   THEN [t EXCEPT !.passed = @ \cup AtaPassed(t), !.pc = AfterAta(t)]
              ELSE [t EXCEPT !.pc = IF t.pc = "ata_in_check" THEN "ata_in_create"
                                    ELSE "ata_out_create"])
    /\ UNCHANGED <<build, received, dispatching, config, monitor, updates, processed_instructions, journal,
                   chain, sent, dispatchLog, external>>

\* ensure_ata_exists_static, second half: the account was missing, send the
\* plain create instruction
EnsureAtaCreate(i) ==
    /\ tasks[i].pc \in {"ata_in_create", "ata_out_create"}
    /\ \E blockhashOk \in BOOLEAN, netOk \in BOOLEAN :
         LET t == tasks[i]
             mint == AtaMint(t)
             ok == netOk /\ ~chain.ata[mint].exists
         IN IF ~blockhashOk
            THEN /\ SetTask(i, Finish(t, Returned))
                 /\ UNCHANGED <<chain, sent>>
            ELSE /\ sent' = Send(Submission(i, "create_ata", "ata", mint, 0,
                                                    NoInstruction, ok, t.passed))
                 /\ chain' = IF ok THEN [chain EXCEPT !.ata[mint].exists = TRUE] ELSE chain
                 /\ SetTask(i, IF ok THEN [t EXCEPT !.passed = @ \cup AtaPassed(t),
                                                    !.pc = AfterAta(t)]
                               ELSE Finish(t, Returned))
    /\ UNCHANGED <<build, received, dispatching, config, monitor, updates, processed_instructions, journal,
                   dispatchLog, external>>

\* TradeExecutor::execute_raydium_cpmm_trade_static
CpmmSwap(i) ==
    /\ tasks[i].pc = "cpmm_send"
    /\ \E blockhashOk \in BOOLEAN, ok \in BOOLEAN :
         LET t == tasks[i]
             ix == create_raydium_cpmm_swap_instructions_v2_static(t.trade, t.account_keys)
         IN IF ~blockhashOk
            THEN /\ SetTask(i, Finish(t, BareError))
                 /\ sent' = sent
            ELSE IF ~SignAccepted(ix)
            THEN /\ SetTask(i, Finish(t, Panicked))
                 /\ sent' = sent
            ELSE /\ sent' = Send(Submission(i, "swap", "cpmm", t.trade.token_in.mint,
                                                    0, ix, ok, t.passed))
                 /\ SetTask(i, AfterSend(t, t.trade, ok))
    /\ UNCHANGED <<build, received, dispatching, config, monitor, updates, processed_instructions, journal,
                   chain, dispatchLog, external>>

(***************************************************************************)
(* Environment: the follower wallet is an ordinary account; its owner can  *)
(* unwrap and close the wrapped-native ATA while the engine runs.          *)
(***************************************************************************)
ExternalUnwrap ==
    /\ external < MaxExternal
    /\ tasks = <<>>
    /\ chain.ata[WSOL_MINT].exists
    /\ chain' = [chain EXCEPT !.sol = @ + chain.ata[WSOL_MINT].amount,
                              !.ata[WSOL_MINT] = Ata(FALSE, 0)]
    /\ external' = external + 1
    /\ UNCHANGED <<build, received, dispatching, config, monitor, updates, processed_instructions, journal,
                   tasks, sent, dispatchLog>>

(***************************************************************************)
(* Harness for the executor's pure functions: the instruction builders and *)
(* encode-then-decode of the swap arguments.  The argument is drawn in the *)
(* initial state, the action applies the function.                         *)
(***************************************************************************)
\* a pending call of `fn` on `args`
BuildCall(fn, args) == [fn |-> fn, args |-> args, done |-> FALSE, result |-> <<>>]

\* the trades the decoders produce from the deliverable transactions
BuildTrades ==
    UNION {{Decoded[sig][i].trade : i \in DOMAIN Decoded[sig]} : sig \in Signatures}
       \ {NoTrade}

BuildPools ==
    { RaydiumPoolAccounts(<<"amm_id", "amm_authority", "open_orders", "target_orders",
                            "coin_vault", "pc_vault", "serum_program", "serum_market",
                            "serum_bids", "serum_asks", "serum_event_queue",
                            "serum_coin_vault", "serum_pc_vault", "serum_vault_signer">>),
      RaydiumPoolAccounts([k \in 1..14 |-> ZERO_PUBKEY]) }

\* PumpFunAccounts as handle_parsed_trade reads them from account_keys
PumpFunAccounts(keys) ==
    [fee_recipient |-> At(keys, 1), mint |-> At(keys, 2), bonding_curve |-> At(keys, 3),
     associated_bonding_curve |-> At(keys, 4), event_authority |-> At(keys, 10)]

\* min_amount_out / max_sol_cost arguments
BuildLimits == {0, 1, 256, 65536, 150000000}

\* u64 values as limbs: every mix of these limb values, u64::MAX included
U64Samples == {<<a, b, c, d>> : a, b, c, d \in {0, 1, 255, 256, 65535}}

\* account_keys per dialect, with the leader as the user and the invoked
\* program as the last key: the documented layouts, and key lists shorter than
\* the decoders index into
DecodeKeys ==
    { PumpKeys(LEADER), CpmmKeys(LEADER, "extra1"), AmmKeys(LEADER),
      <<LEADER, MINT_A, PUMP_FUN_PROGRAM>>, <<LEADER, "amm_id", RAYDIUM_AMM_V4>>,
      <<RAYDIUM_CPMM>>,
      \* a bonding-curve swap of the leader whose transaction also names the
      \* CPMM program, ahead of the bonding-curve program
      <<"payer", "fee_recipient", MINT_A, "bonding_curve", "assoc_curve",
        RAYDIUM_CPMM, LEADER, SYSTEM_PROGRAM, TOKEN_PROGRAM, "rent",
        "event_authority", PUMP_FUN_PROGRAM>> }

\* instruction data: empty, shorter than a discriminator, a discriminator alone,
\* a foreign discriminator, and well-formed swap arguments of each protocol
DecodeData ==
    { <<>>, <<RAYDIUM_AMM_SWAP_INSTRUCTION>>, <<PUMP_BUY_INSTRUCTION, 1, 2>>,
      <<7>> \o Zeros(16),
      SwapData(RAYDIUM_AMM_SWAP_INSTRUCTION, 1000, 1),
      SwapData(RAYDIUM_AMM_SWAP_INSTRUCTION, 0, 0),
      SwapData(PUMP_BUY_INSTRUCTION, 1000, 5),
      SwapData(PUMP_SELL_INSTRUCTION, 1000, 5),
      SubSeq(RAYDIUM_CPMM_SWAP_BASE_INPUT, 1, 7),
      RAYDIUM_CPMM_SWAP_BASE_OUTPUT,
      CpmmData }

\* token-balance rows of a transaction: up to two token accounts, each of
\* either mint, owned by the user or not, unchanged, shrinking or growing; and
\* row lists of different length
DecodeRows ==
    LET pair(idx, mint, owner, amounts) ==
            [pre |-> Row(idx, mint, owner, amounts[1]),
             post |-> Row(idx, mint, owner, amounts[2])]
        pairs(idx) == {pair(idx, mint, owner, amounts) :
                          mint \in {WSOL_MINT, MINT_A}, owner \in {LEADER, STRANGER},
                          amounts \in {<<5, 5>>, <<9, 5>>, <<5, 9>>, <<0, 7>>}}
    IN {[pre |-> <<>>, post |-> <<>>]}
       \cup {[pre |-> <<a.pre>>, post |-> <<a.post>>] : a \in pairs(1)}
       \cup {[pre |-> <<a.pre, b.pre>>, post |-> <<a.post, b.post>>] :
                a \in pairs(1), b \in pairs(2)}
       \* the transaction creates the user's MINT_A account (no pre row), at an
       \* account index below or above the wrapped-native account's
       \cup {[pre |-> <<Row(2, WSOL_MINT, LEADER, 9)>>,
              post |-> <<Row(1, MINT_A, LEADER, 7), Row(2, WSOL_MINT, LEADER, 5)>>],
             [pre |-> <<Row(1, WSOL_MINT, LEADER, 9)>>,
              post |-> <<Row(1, WSOL_MINT, LEADER, 5), Row(2, MINT_A, LEADER, 7)>>],
       \* the transaction closes the user's MINT_A account (no post row)
             [pre |-> <<Row(1, MINT_A, LEADER, 9), Row(2, WSOL_MINT, LEADER, 5)>>,
              post |-> <<Row(2, WSOL_MINT, LEADER, 9)>>]}

\* whole transactions with lamport balances that move: an AMM v4 buy whose
\* declared amount_in differs from what the user paid, a bonding-curve sell
\* and a CPMM sell of a user without a wrapped-native token account, and a
\* CPMM swap that pays a tip account
WithLamports(tx, index, pre, post) ==
    [tx EXCEPT !.pre_balances[index + 1] = pre, !.post_balances[index + 1] = post]

DecodeExamples ==
    { WithLamports(MkTx("sigAmmDeclared", AmmKeys(LEADER),
                        <<Ix(8, Indices(0, 7),
                             SwapData(RAYDIUM_AMM_SWAP_INSTRUCTION, 1000000000, 1))>>,
                        [pre |-> <<Row(7, MINT_A, LEADER, 0)>>,
                         post |-> <<Row(7, MINT_A, LEADER, 25000000)>>]),
                   0, 2000000000, 999995000),
      WithLamports(MkTx("sigPumpNativeSell", PumpKeys(LEADER),
                        <<Ix(11, Indices(0, 10),
                             SwapData(PUMP_SELL_INSTRUCTION, 1000000000, 1))>>,
                        [pre |-> <<Row(5, MINT_A, LEADER, 1000000000)>>,
                         post |-> <<Row(5, MINT_A, LEADER, 0)>>]),
                   6, 1000000, 501000000),
      WithLamports(MkTx("sigCpmmNativeSell", CpmmKeys(LEADER, "extra1"),
                        <<Ix(15, Indices(0, 14), CpmmData)>>,
                        [pre |-> <<Row(1, MINT_A, LEADER, 1000000000)>>,
                         post |-> <<Row(1, MINT_A, LEADER, 0)>>]),
                   0, 1000000, 501000000),
      \* the leader's lamports fall by the amount paid plus the fee
      WithLamports(MkTx("sigPumpFee", PumpKeys(LEADER),
                        <<Ix(11, Indices(0, 10), SwapData(PUMP_BUY_INSTRUCTION, 7, 200000))>>,
                        GainRows(LEADER, 7)),
                   6, 1000000, 800000),
      \* the payer pays the base fee and a tip of 10000 to the tip account
      WithLamports(WithLamports(MkTx("sigCpmmTip", CpmmKeys(LEADER, "extra1"),
                                     <<Ix(15, Indices(0, 14), CpmmData)>>,
                                     BuyRows(LEADER, 9, 7)),
                                0, 1000000, 985000),
                   14, 1000000, 1010000) }

InitBuild ==
    /\ config = Config(FALSE, 1000000000, 1000000000)
    /\ chain = RichChain
    /\ monitor = "connecting"
    /\ updates = 0
    /\ received = <<>>
    /\ dispatching = Idle
    /\ processed_instructions = {}
    /\ journal = <<>>
    /\ tasks = <<>>
    /\ sent = {}
    /\ dispatchLog = <<>>
    /\ external = 0
    /\ \/ \E trade \in BuildTrades, pool \in BuildPools, min_amount_out \in BuildLimits :
            build = BuildCall("create_raydium_cpmm_instructions",
                              <<trade, pool, min_amount_out>>)
       \/ \E trade \in BuildTrades, max_sol_cost \in BuildLimits,
             accounts \in {ZeroPumpAccounts, PumpFunAccounts(PumpKeys(LEADER))} :
            build = BuildCall("create_pump_instructions", <<trade, accounts, max_sol_cost>>)
       \/ \E disc \in {RAYDIUM_AMM_SWAP_INSTRUCTION, PUMP_BUY_INSTRUCTION,
                         PUMP_SELL_INSTRUCTION},
             amount \in U64Samples,
             limit \in {<<a, 0, 0, d>> : a, d \in {0, 258, 65535}} :
            build = BuildCall("encode_decode", <<disc, amount, limit>>)
       \/ \E keys \in DecodeKeys, data \in DecodeData, rows \in DecodeRows :
            build = BuildCall("parse_transaction_data",
                              <<MkTx("sigDecode", keys,
                                     <<Ix(Len(keys) - 1, Indices(0, Len(keys) - 2), data)>>,
                                     rows),
                                data>>)
       \/ \E tx \in DecodeExamples :
            build = BuildCall("parse_transaction_data", <<tx, tx.instructions[1].data>>)

BuildAmmV4 ==
    /\ ~build.done
    /\ build.fn = "create_raydium_cpmm_instructions"
    /\ build' = [build EXCEPT !.done = TRUE,
                              !.result = create_raydium_cpmm_instructions(
                                             build.args[1], build.args[2], build.args[3])]
    /\ UNCHANGED pipeline

BuildPump ==
    /\ ~build.done
    /\ build.fn = "create_pump_instructions"
    /\ build' = [build EXCEPT !.done = TRUE,
                              !.result = create_pump_instructions(
                                             build.args[1], build.args[2], build.args[3])]
    /\ UNCHANGED pipeline

\* the executor's encoding, then the decoder's parser of that framing
EncodeDecode ==
    /\ ~build.done
    /\ build.fn = "encode_decode"
    /\ LET data == encode_swap_args(build.args[1], build.args[2], build.args[3])
       IN build' = [build EXCEPT
                      !.done = TRUE,
                      !.result = IF build.args[1] = RAYDIUM_AMM_SWAP_INSTRUCTION
                                 THEN parse_swap_instruction_data(data)
                                 ELSE parse_pump_instruction_data(data)]
    /\ UNCHANGED pipeline

\* the decoder call process_transaction makes for an accepted instruction: the
\* whole account_keys list and the instruction's data
Decode ==
    /\ ~build.done
    /\ build.fn = "parse_transaction_data"
    /\ build' = [build EXCEPT
                   !.done = TRUE,
                   !.result = parse_transaction_data(build.args[1],
                                                     build.args[1].instructions[1].data)]
    /\ UNCHANGED pipeline

NextBuild == BuildAmmV4 \/ BuildPump \/ EncodeDecode \/ Decode

(***************************************************************************)
(* Properties                                                              *)
(***************************************************************************)
\* a dispatch that got past the program filter and the dedup set
ReachedDecoder(e) == e.outcome \notin {"Filtered", "Deduped"}

\* the decoder returned a Trade of the configured leader
LeaderTrade(e) == e.outcome \in {"Spawned", "Skipped"}

TasksOf(key) == {i \in DOMAIN tasks : tasks[i].key = key}

JournalOf(signature) ==
    {j \in DOMAIN journal : journal[j].original_signature = signature}

SwapsOf(i) == {sub \in sent : sub.task = i /\ sub.kind = "swap"}

\* the amount_in field of a submitted swap instruction: after the 1-byte
\* discriminator (bonding curve) or the 8-byte discriminator (CPMM)
EncodedAmountIn(sub) ==
    IF sub.protocol = "pump" THEN from_le_bytes(SubSeq(sub.instruction.data, 2, 9))
    ELSE from_le_bytes(SubSeq(sub.instruction.data, 9, 16))

\* C1: of the dispatches of one (signature, instruction_index) key at most one
\* reaches the decoder, and a key that reached the decoder stays in
\* processed_instructions for the rest of the session, reconnects included.
C1_AtMostOneDecode ==
    /\ \A a, b \in DOMAIN dispatchLog :
          (a < b /\ dispatchLog[a].key = dispatchLog[b].key
                 /\ ReachedDecoder(dispatchLog[a]))
             => ~ReachedDecoder(dispatchLog[b])
    /\ \A a \in DOMAIN dispatchLog :
          ReachedDecoder(dispatchLog[a]) => dispatchLog[a].key \in processed_instructions

\* C1, the case: the subscriber is between two connections, a key was decoded
\* once and a later dispatch of it was stopped by the dedup set
C1_Witness ==
    /\ monitor = "sleeping"
    /\ \E a, b \in DOMAIN dispatchLog :
          /\ a < b
          /\ dispatchLog[a].key = dispatchLog[b].key
          /\ dispatchLog[a].outcome = "Spawned"
          /\ dispatchLog[b].outcome = "Deduped"

\* C2: when a leader swap instruction was delivered twice, the journal holds
\* exactly one record of the trade and exactly one mirror task exists for it.
C2_OneTradeOneAttempt ==
    \A a, b \in DOMAIN dispatchLog :
       (a < b /\ dispatchLog[a].key = dispatchLog[b].key /\ LeaderTrade(dispatchLog[a]))
          => /\ Cardinality(JournalOf(dispatchLog[a].key[1])) = 1
             /\ Cardinality(TasksOf(dispatchLog[a].key)) = 1

\* C3: a mirror task exists, and a transaction is sent, only for a trade whose
\* wallet is the configured leader; a trade of another wallet has no task.
C3_OnlyLeaderMirrored ==
    /\ \A i \in DOMAIN tasks : tasks[i].trade.wallet = config.target_wallet
    /\ \A sub \in sent : tasks[sub.task].trade.wallet = config.target_wallet
    /\ \A a \in DOMAIN dispatchLog :
          dispatchLog[a].outcome = "NotLeader" => TasksOf(dispatchLog[a].key) = {}

\* C3, the case: a trade of another wallet was decoded and journaled, and a
\* leader trade was mirrored up to a sent transaction
C3_Witness ==
    /\ \E a \in DOMAIN dispatchLog :
          /\ dispatchLog[a].outcome = "NotLeader"
          /\ JournalOf(dispatchLog[a].key[1]) # {}
    /\ sent # {}

\* C4: every Trade the decoder returns for the configured leader has a mirror
\* task, whatever its protocol and however many account keys it carries.
C4_LeaderTradeSpawned ==
    \A a \in DOMAIN dispatchLog :
       LeaderTrade(dispatchLog[a]) => TasksOf(dispatchLog[a].key) # {}

\* C5: with execution disabled no transaction is sent and every finished
\* mirror task holds a skipped ExecutedTrade (success = false).
C5_DisabledSendsNothing ==
    ~config.enabled =>
       /\ sent = {}
       /\ \A i \in DOMAIN tasks :
             tasks[i].pc = "done" => /\ tasks[i].result.kind = "Executed"
                                     /\ ~tasks[i].result.success

\* the gate steps a trade has to pass before its swap may be sent
GateSteps(trade) ==
    {"enabled", "size", "wsol", "ata"}
    \cup (IF trade.trade_direction = "Sell" THEN {"sell_balance"} ELSE {})

\* C6: a swap is sent only by a task that passed every gate step, and a task
\* the gate rejected (a skipped ExecutedTrade) has sent no swap.
C6_SubmittedOnlyAfterGated ==
    /\ \A sub \in sent :
          sub.kind = "swap" => GateSteps(tasks[sub.task].trade) \subseteq sub.passed
    /\ \A i \in DOMAIN tasks :
          (tasks[i].result.kind = "Executed"
             /\ tasks[i].result.error \in {"disabled", "below_min", "above_max",
                                           "no_token_balance", "sol_insufficient"})
             => SwapsOf(i) = {}

\* C7: with min = max every sent swap encodes that amount in lamports;
\* otherwise a swap is sent only for a trade whose amount lies in [min, max].
C7_ClampedAmount ==
    \A sub \in sent :
       sub.kind = "swap" =>
          LET trade == tasks[sub.task].trade
          IN IF config.min_trade_amount = config.max_trade_amount
             THEN EncodedAmountIn(sub)
                     = trade_forced_amount_in_lamports(config.max_trade_amount)
             ELSE /\ lamports_to_sol(trade.amount_in) >= config.min_trade_amount
                  /\ lamports_to_sol(trade.amount_in) <= config.max_trade_amount

\* C8: a swap for a Sell is sent only when the follower's accounts of
\* token_in.mint together held at least the amount the swap spends.
C8_SellNeedsBalance ==
    \A sub \in sent :
       (sub.kind = "swap" /\ tasks[sub.task].trade.trade_direction = "Sell")
          => "sell_balance" \in sub.passed

\* C9: a task is about to send the wrap transaction only when its trade spends
\* wrapped-native and the wrapped balance is short; the transaction moves the
\* shortfall and the chain accepts it whether or not the ATA exists.
C9_WrapProvisioning ==
    \A i \in DOMAIN tasks :
       tasks[i].pc = "wrap" =>
          /\ tasks[i].trade.token_in.mint = WSOL_MINT
          /\ tasks[i].wsol_balance < tasks[i].required
          /\ chain.sol >= tasks[i].required - tasks[i].wsol_balance
                => WrapAccepted(chain, tasks[i].required - tasks[i].wsol_balance)

\* C10: a task whose wrap transaction failed ends with a skipped ExecutedTrade
\* (success = false) and has sent no swap.
C10_WrapFailureRecorded ==
    \A sub \in sent :
       (sub.kind = "wrap" /\ ~sub.ok) =>
          /\ tasks[sub.task].result.kind = "Executed"
          /\ ~tasks[sub.task].result.success
          /\ SwapsOf(sub.task) = {}

\* the tasks whose executor call returned an ExecutedTrade
ExecutedTasks == {i \in DOMAIN tasks : tasks[i].result.kind = "Executed"}

\* C11: in every ExecutedTrade an executor path returned, whatever the path,
\* copy_signature is non-empty exactly when success is true.
C11_SignatureIffSuccess ==
    \A i \in ExecutedTasks :
       (tasks[i].result.copy_signature # "") <=> tasks[i].result.success

\* C11, the case: one mirror was confirmed and carries its signature, another
\* ended with a failed or skipped ExecutedTrade without one
C11_Witness ==
    /\ \E i \in ExecutedTasks : /\ tasks[i].result.success
                                 /\ tasks[i].result.copy_signature = MirrorSignature
    /\ \E j \in ExecutedTasks : /\ ~tasks[j].result.success
                                 /\ tasks[j].result.copy_signature = ""

\* C12: a task sends its swap at most once, a swap the chain refused leaves the
\* task finished with a failed ExecutedTrade carrying the error, and the tasks
\* of one leader instruction together have sent at most one swap.
C12_NeverRetry ==
    /\ \A i \in DOMAIN tasks : Cardinality(SwapsOf(i)) <= 1
    /\ \A sub \in sent :
          (sub.kind = "swap" /\ ~sub.ok) =>
             /\ tasks[sub.task].pc = "done"
             /\ tasks[sub.task].result.kind = "Executed"
             /\ ~tasks[sub.task].result.success
             /\ tasks[sub.task].result.error # ""
    /\ \A i, j \in DOMAIN tasks :
          (tasks[i].key = tasks[j].key /\ SwapsOf(i) # {} /\ SwapsOf(j) # {}) => i = j

\* C12, the case: the chain refused a swap, its task has ended, and the same
\* leader instruction was delivered again afterwards
C12_Witness ==
    \E sub \in sent :
       /\ sub.kind = "swap" /\ ~sub.ok
       /\ tasks[sub.task].pc = "done"
       /\ \E a \in DOMAIN dispatchLog :
             /\ dispatchLog[a].key = tasks[sub.task].key
             /\ dispatchLog[a].outcome = "Deduped"

\* C13: start_monitoring has no exit.  An attempt (connecting, streaming) ends
\* only in the sleep, the sleep ends only in a new attempt, and every sleep is
\* followed by a new attempt, however many attempts there were before.
C13_ReconnectsForever ==
    /\ [][(monitor \in {"connecting", "streaming"} /\ monitor' # monitor)
             => monitor' \in {"streaming", "sleeping", "crashed"}]_vars
    /\ [][(monitor = "sleeping" /\ monitor' # monitor) => monitor' = "connecting"]_vars
    /\ (monitor = "sleeping") ~> (monitor = "connecting")

\* C13, the case: a stream that had delivered updates ended, the sleep passed,
\* and the loop is in its next attempt
C13_Witness ==
    /\ monitor = "connecting"
    /\ updates > 0

\* the decoder returned Some(trade) for the dispatched instruction
TradeReturned(e) == e.outcome \in {"Spawned", "Skipped", "NotLeader"}

\* the Trade the decoder returned for a dispatched instruction
TradeOf(e) == Decoded[e.key[1]][e.key[2] + 1].trade

TradeState(e) ==
    IF e.outcome \in {"Filtered", "Deduped", "NotLeader"} THEN e.outcome
    ELSE IF e.outcome \in {"None", "Err"} THEN "NotATrade"
    ELSE IF e.outcome = "Panic" THEN "Crashed"
    ELSE IF e.outcome = "Skipped" THEN "LeaderMatched"
    ELSE LET t == tasks[CHOOSE i \in TasksOf(e.key) : TRUE]
         IN IF t.pc # "done" THEN "InProgress"
            ELSE IF t.result.kind # "Executed" THEN "Aborted"
            ELSE IF t.result.success THEN "Confirmed"
            ELSE IF t.result.error = "send_failed" THEN "Failed"
            ELSE "Rejected"

\* C15: an instruction whose processing can take no further step is in one of
\* the terminal states; a leader trade is at rest only as Rejected, Confirmed
\* or Failed.
C15_EndsInTerminalState ==
    \A a \in DOMAIN dispatchLog :
       TradeState(dispatchLog[a]) \in {"Filtered", "Deduped", "NotATrade", "NotLeader",
                                       "InProgress", "Rejected", "Confirmed", "Failed"}

\* the create-ATA transactions of the ensure step, per mint
CreatesOf(mint) == {sub \in sent : sub.kind = "create_ata" /\ sub.mint = mint}

\* C16: a swap is sent only by a task that ensured both ATAs; the account of a
\* mint is created at most once; and a task that is about to create an ATA,
\* alone or inside its swap transaction, is not refused because another
\* ensure, possibly of a concurrent task, has created the account meanwhile.
C16_EnsureAtaIdempotent ==
    /\ \A sub \in sent : sub.kind = "swap" => "ata" \in sub.passed
    /\ \A mint \in {WSOL_MINT, MINT_A} :
          Cardinality({sub \in CreatesOf(mint) : sub.ok}) <= 1
    /\ \A i \in DOMAIN tasks :
          /\ tasks[i].pc \in {"ata_in_create", "ata_out_create"}
                => ~chain.ata[AtaMint(tasks[i])].exists
          /\ (tasks[i].pc = "swap" /\ tasks[i].trade.dex_type = "PumpFun")
                => PumpSwapAccepted(chain, tasks[i].trade)

\* the accounts of the leader's instruction with dedup key `key`, resolved
\* through the transaction's account_keys
ObservedAccounts(key) ==
    LET tx == CHOOSE t \in TxUpdates : t.signature = key[1]
        ix == At(tx.instructions, key[2])
    IN [j \in DOMAIN ix.accounts |-> At(tx.account_keys, ix.accounts[j])]

\* writable flags of the 13 fixed CPMM slots, (ro) slots FALSE
CpmmSlotWritable ==
    <<TRUE, TRUE, TRUE, TRUE, FALSE, FALSE, FALSE, TRUE, TRUE, FALSE, FALSE, FALSE, FALSE>>

\* C18: a submitted CPMM mirror instruction has the 13 fixed slots with the
\* listed writable flags, entry 0 as its only signer, and after them exactly
\* the trailing accounts of the leader's instruction, in order, read-only.
C18_CpmmAccountMetas ==
    \A sub \in sent :
       (sub.kind = "swap" /\ sub.protocol = "cpmm") =>
          LET metas == sub.instruction.accounts
              observed == ObservedAccounts(tasks[sub.task].key)
          IN /\ Len(metas) >= 13
             /\ \A j \in 1..13 : /\ metas[j].pubkey = observed[j]
                                  /\ metas[j].is_writable = CpmmSlotWritable[j]
             /\ \A j \in DOMAIN metas : metas[j].is_signer <=> j = 1
             /\ Len(metas) = Len(observed)
             /\ \A j \in 14..Len(metas) : /\ metas[j].pubkey = observed[j]
                                           /\ ~metas[j].is_writable

\* the pubkeys of an instruction's account metas, in order
Pubkeys(ix) == [j \in DOMAIN ix.accounts |-> ix.accounts[j].pubkey]

Signers(ix) == {j \in DOMAIN ix.accounts : ix.accounts[j].is_signer}

C20_EncodeDecodeRoundTrip ==
    (build.fn = "encode_decode" /\ build.done) =>
       /\ build.result.ok
       /\ build.result.amount = build.args[2]
       /\ build.result.limit = build.args[3]

\* u64::MAX as amount and another limit went through the bonding-curve framing
C20_Witness ==
    /\ build.fn = "encode_decode"
    /\ build.done
    /\ build.args[1] = PUMP_SELL_INSTRUCTION
    /\ build.args[2] = <<65535, 65535, 65535, 65535>>
    /\ build.args[3] = <<258, 0, 0, 65535>>
    /\ build.result.ok

\* the data starts with a swap discriminator of the dialect
HasSwapDiscriminator(dex_type, data) ==
    IF dex_type = "PumpFun"
    THEN data # <<>> /\ data[1] \in {PUMP_BUY_INSTRUCTION, PUMP_SELL_INSTRUCTION}
    ELSE IF dex_type = "RaydiumCPMM"
    THEN Len(data) >= 8 /\ SubSeq(data, 1, 8) \in {RAYDIUM_CPMM_SWAP_BASE_INPUT,
                                                    RAYDIUM_CPMM_SWAP_BASE_OUTPUT}
    ELSE data # <<>> /\ data[1] = RAYDIUM_AMM_SWAP_INSTRUCTION

Decoding == build.fn = "parse_transaction_data" /\ build.done

\* C21: a decoder returns Some, None or an error and nothing else; None exactly
\* when the data does not start with a swap discriminator of its protocol; an
\* error only for data that carries the discriminator, and always when the
\* one-byte framings are shorter than their 17 bytes.
C21_DecoderContract ==
    Decoding =>
       LET data == build.args[2]
           dex_type == identify_dex_from_accounts(build.args[1].account_keys)
           swap == HasSwapDiscriminator(dex_type, data)
       IN /\ build.result.kind \in {"Some", "None", "Err"}
          /\ build.result.kind = "None" <=> ~swap
          /\ build.result.kind = "Err" => swap
          /\ (swap /\ dex_type # "RaydiumCPMM" /\ Len(data) < 17) =>
                build.result.kind = "Err"

\* C22: a returned Trade has amount_in > 0 and amount_out > 0.
C22_PositiveAmounts ==
    (Decoding /\ build.result.kind = "Some") =>
       /\ build.result.trade.amount_in > 0
       /\ build.result.trade.amount_out > 0

\* C23: a returned Trade is a Buy exactly when its token_in is the
\* wrapped-native mint.
C23_BuyIffWrappedNativeIn ==
    (Decoding /\ build.result.kind = "Some") =>
       (build.result.trade.trade_direction = "Buy"
          <=> build.result.trade.token_in.mint = WSOL_MINT)

\* C24: the decoder invoked for an accepted instruction is the one of the
\* program the instruction itself names, whatever other tracked programs the
\* transaction's account_keys contain.
C24_DecoderOfOwnProgram ==
    Decoding =>
       LET tx == build.args[1]
           ix == tx.instructions[1]
           program_id == At(tx.account_keys, ix.program_id_index)
       IN /\ program_id = RAYDIUM_AMM_V4 =>
                build.result = parse_raydium_amm_v4_swap(tx, ix.data)
          /\ program_id = RAYDIUM_CPMM =>
                build.result = parse_raydium_cpmm_swap(tx, ix.data)
          /\ program_id = PUMP_FUN_PROGRAM =>
                build.result = parse_pump_trade(tx, ix.data)

\* the instruction a dedup key (signature, instruction index) names
IxOf(key) ==
    LET tx == CHOOSE t \in TxUpdates : t.signature = key[1]
    IN At(tx.instructions, key[2])

\* the instruction's program_id_index is inside account_keys and names one of
\* the four programs the claim lists
NamesTrackedProgram(key) ==
    LET tx == CHOOSE t \in TxUpdates : t.signature = key[1]
        ix == IxOf(key)
    IN /\ ix.program_id_index < Len(tx.account_keys)
       /\ At(tx.account_keys, ix.program_id_index)
             \in {RAYDIUM_AMM_V4, RAYDIUM_CPMM, RAYDIUM_CLMM, PUMP_FUN_PROGRAM}

\* C25: an instruction reaches the dedup check and the decoder only if its
\* program_id_index is inside account_keys and the program it names is AMM v4,
\* CPMM, CLMM or the bonding curve; every other instruction is skipped and never
\* enters the dedup set.
C25_OnlyTrackedInstructionsReachDedup ==
    /\ \A a \in DOMAIN dispatchLog :
          /\ dispatchLog[a].outcome # "Filtered" => NamesTrackedProgram(dispatchLog[a].key)
          /\ ~NamesTrackedProgram(dispatchLog[a].key)
                => /\ dispatchLog[a].outcome = "Filtered"
                   /\ dispatchLog[a].key \notin processed_instructions
    /\ \A key \in processed_instructions : NamesTrackedProgram(key)

\* a transaction was dispatched of which one instruction names an untracked
\* program, one an index outside account_keys and one a tracked program
C25_Witness ==
    \E a, b, c \in DOMAIN dispatchLog :
       LET tx == CHOOSE t \in TxUpdates : t.signature = dispatchLog[a].key[1]
       IN /\ dispatchLog[b].key[1] = tx.signature
          /\ dispatchLog[c].key[1] = tx.signature
          /\ dispatchLog[a].outcome = "Filtered"
          /\ IxOf(dispatchLog[a].key).program_id_index >= Len(tx.account_keys)
          /\ dispatchLog[b].outcome = "Filtered"
          /\ IxOf(dispatchLog[b].key).program_id_index < Len(tx.account_keys)
          /\ dispatchLog[c].outcome # "Filtered"
          /\ dispatchLog[c].key \in processed_instructions

\* C26: when the decoder returns an error or None the instruction is skipped
\* (no task), the loop goes on to the transaction's next instruction, the
\* instruction's dedup key stays in the set, and a redelivery of it is not
\* decoded again.
C26_FailedDecodeSkipsAndStaysDeduped ==
    \A a \in DOMAIN dispatchLog :
       dispatchLog[a].outcome \in {"Err", "None"}
          => LET key == dispatchLog[a].key
                 tx == CHOOSE t \in TxUpdates : t.signature = key[1]
             IN /\ key \in processed_instructions
                /\ TasksOf(key) = {}
                /\ key[2] + 1 < Len(tx.instructions)
                      => /\ a + 1 \in DOMAIN dispatchLog
                         /\ dispatchLog[a + 1].key = <<key[1], key[2] + 1>>
                /\ \A b \in DOMAIN dispatchLog :
                      (a < b /\ dispatchLog[b].key = key) => dispatchLog[b].outcome = "Deduped"

\* a transaction whose first instruction failed to decode, whose second decoded
\* to None and whose third was mirrored, was delivered twice
C26_Witness ==
    \E a, b, c, d \in DOMAIN dispatchLog :
       /\ dispatchLog[a].outcome = "Err"
       /\ b = a + 1 /\ dispatchLog[b].outcome = "None"
       /\ c = b + 1 /\ dispatchLog[c].outcome = "Spawned"
       /\ dispatchLog[c].key[1] = dispatchLog[a].key[1]
       /\ c < d
       /\ dispatchLog[d].key = dispatchLog[a].key
       /\ dispatchLog[d].outcome = "Deduped"

\* C27: the result of every executor task that ran to an ExecutedTrade is in
\* the journal as a mirror-execution record: a record of the leader's signature
\* that carries the task's success and its copy_signature (None when empty, as
\* TradeRecorder::record_execution would write it).
C27_TaskResultJournaled ==
    \A i \in ExecutedTasks :
       \E j \in DOMAIN journal :
          /\ journal[j].original_signature = tasks[i].trade.signature
          /\ journal[j].copy_signature = IF tasks[i].result.copy_signature = "" THEN "None"
                                         ELSE tasks[i].result.copy_signature
          /\ journal[j].success = tasks[i].result.success

\* the dedup keys of all instructions of the given updates, in order
RECURSIVE KeysOf(_)
KeysOf(rs) ==
    IF rs = <<>> THEN <<>>
    ELSE LET tx == CHOOSE t \in TxUpdates : t.signature = Head(rs).signature
         IN [i \in 1..Len(tx.instructions) |-> <<tx.signature, i - 1>>] \o KeysOf(Tail(rs))

Dispatched(r) == r.handled = "dispatched"

\* the dispatch log consists of the instructions of the updates handed to
\* dispatch, in the order the updates were received
InOrderReceived ==
    LET keys == KeysOf(SelectSeq(received, Dispatched))
    IN /\ Len(dispatchLog) <= Len(keys)
       /\ \A a \in DOMAIN dispatchLog : dispatchLog[a].key = keys[a]

\* every instruction of every update handed to dispatch has been dealt with and
\* every returned Trade is in the journal
DispatchComplete ==
    /\ dispatching = Idle
    /\ Len(dispatchLog) = Len(KeysOf(SelectSeq(received, Dispatched)))
    /\ Len(journal) = Len(SelectSeq(dispatchLog, TradeReturned))

\* C28: every Transaction update the stream yields is handed to dispatch, in the
\* order received, or, when it cannot be processed (no transaction body, no
\* meta), is at least logged: none is dropped silently.
C28_NoUpdateDroppedSilently ==
    /\ \A k \in DOMAIN received : received[k].handled \in {"dispatched", "logged"}
    /\ InOrderReceived

\* C29: no transaction of a mirror task is sent before the observed-trade
\* record of the task's leader trade is in the journal.
C29_JournaledBeforeMirror ==
    \A sub \in sent : JournalOf(tasks[sub.task].trade.signature) # {}

\* the index of the first delivery of a signature
FirstReceived(signature) ==
    CHOOSE k \in DOMAIN received :
       /\ received[k].signature = signature
       /\ \A l \in 1..(k - 1) : received[l].signature # signature

\* C30: the subscriber takes the next update from the stream only when the
\* dispatch of the previous ones is complete, every instruction dealt with and
\* every journal write made; and the observed-trade records of the journal are
\* in the order their updates were received.
C30_SerialDispatch ==
    /\ [][received' # received => DispatchComplete]_vars
    /\ [](\A j1, j2 \in DOMAIN journal :
             j1 < j2 => FirstReceived(journal[j1].original_signature)
                          <= FirstReceived(journal[j2].original_signature))
    /\ [](InOrderReceived)

\* C30, the case: a second update was taken after the first had spawned a
\* mirror task and saved its trade, and both are journaled in order received
C30_Witness ==
    /\ Len(received) = 2
    /\ received[1].signature # received[2].signature
    /\ dispatching = Idle
    /\ Len(journal) = 2
    /\ journal[1].original_signature = received[1].signature
    /\ journal[2].original_signature = received[2].signature
    /\ \E i \in DOMAIN tasks : tasks[i].trade.signature = received[1].signature

\* a step of executor task i
TaskStep(i) ==
    \/ ExecStart(i) \/ ExecSellCheck(i) \/ ExecWsolCheck(i) \/ ExecSolCheck(i)
    \/ ExecWrap(i) \/ ExecSwap(i)
    \/ EnsureAtaCheck(i) \/ EnsureAtaCreate(i) \/ CpmmSwap(i)

InFlight(i) == tasks[i].pc # "done"

\* C31: executor tasks are detached.  The subscriber, back at stream.next(), can
\* take the next update whatever the tasks are doing, and every task that has
\* not finished can take its next step whatever the subscriber and the other
\* tasks are doing.
C31_DetachedTasks ==
    /\ (monitor = "streaming" /\ dispatching = Idle /\ updates < MaxUpdates)
          => ENABLED ReceiveTransaction
    /\ \A i \in DOMAIN tasks : InFlight(i) => ENABLED TaskStep(i)

\* C31, the case: the mirror tasks of two leader instructions are both in
\* flight, the first one having sent nothing yet when the second update was
\* dispatched
C31_Witness ==
    /\ Len(tasks) = 2
    /\ tasks[1].key # tasks[2].key
    /\ InFlight(1) /\ InFlight(2)
    /\ tasks[1].pc # NewTask(tasks[1].key, tasks[1].kind, tasks[1].trade,
                              tasks[1].account_keys).pc
    /\ tasks[2].pc # NewTask(tasks[2].key, tasks[2].kind, tasks[2].trade,
                              tasks[2].account_keys).pc
    /\ dispatching = Idle

\* C32: the dedup mutex is held only across the contains/insert of one key.
\* For a key already present it is released at the continue; for a key newly
\* inserted it is released before the decoder is invoked, and so before the
\* journal write and the spawn that follow a decoded Trade.
C32_DedupLockNotHeldAcrossDecode ==
    \A a \in DOMAIN dispatchLog : ~dispatchLog[a].locked

\* C32, the case: one instruction was newly inserted, decoded, journaled and
\* spawned, and a redelivery of it found the key present
C32_Witness ==
    \E a, b \in DOMAIN dispatchLog :
       /\ a < b
       /\ dispatchLog[a].key = dispatchLog[b].key
       /\ dispatchLog[a].outcome = "Spawned"
       /\ dispatchLog[b].outcome = "Deduped"
       /\ dispatchLog[a].key \in processed_instructions
       /\ JournalOf(dispatchLog[a].key[1]) # {}
       /\ TasksOf(dispatchLog[a].key) # {}
       /\ dispatching = Idle

\* C33: no input makes the decoder panic: whatever the lengths of account_keys,
\* of the instruction data and of the balance lists, the call made for an
\* accepted instruction returns Some(Trade), None or an error value.
C33_DecoderNeverPanics ==
    Decoding => build.result.kind # "Panic"

\* the sum of the amounts of the rows of one owner and one mint
RECURSIVE RowSum(_, _, _)
RowSum(rows, owner, mint) ==
    IF rows = <<>> THEN 0
    ELSE (IF Head(rows).owner = owner /\ Head(rows).mint = mint THEN Head(rows).amount
          ELSE 0) + RowSum(Tail(rows), owner, mint)

\* delta = post - pre of the user's balance of one mint
DeltaOf(tx, user, mint) ==
    RowSum(tx.post_token_balances, user, mint) - RowSum(tx.pre_token_balances, user, mint)

\* a CPMM or bonding-curve decoder call returned a Trade
DeltaDecoded ==
    /\ Decoding
    /\ build.result.kind = "Some"
    /\ build.result.trade.dex_type \in {"RaydiumCPMM", "PumpFun"}

\* a CPMM or bonding-curve decoder call failed on a well-formed swap instruction
\* of the leader
DeltaFailed ==
    /\ Decoding
    /\ build.result.kind = "Err"
    /\ LET dex_type == identify_dex_from_accounts(build.args[1].account_keys)
       IN /\ dex_type \in {"RaydiumCPMM", "PumpFun"}
          /\ HasSwapDiscriminator(dex_type, build.args[2])
          /\ dex_type = "PumpFun" => Len(build.args[2]) >= 17

\* C34: for the CPMM and the bonding-curve dialect, with delta = post - pre per
\* mint over the user's rows, token_in is the mint with the largest negative
\* delta and token_out the mint with the largest positive delta, the amounts
\* being the magnitudes; also when the pre and post lists differ in length.
\* When the user's rows show both a negative and a positive delta, decoding a
\* well-formed swap does not fail.
C34_LargestDeltas ==
    /\ DeltaFailed =>
          LET delta(mint) == DeltaOf(build.args[1], LEADER, mint)
          IN ~(\E m, n \in {WSOL_MINT, MINT_A} : delta(m) < 0 /\ delta(n) > 0)
    /\ DeltaDecoded =>
       LET tx == build.args[1]
           trade == build.result.trade
           delta(mint) == DeltaOf(tx, trade.wallet, mint)
           mints == {WSOL_MINT, MINT_A}
       IN /\ (\E m \in mints : delta(m) < 0)
               => /\ trade.token_in.mint \in mints
                  /\ \A m \in mints : delta(trade.token_in.mint) <= delta(m)
                  /\ trade.amount_in = 0 - delta(trade.token_in.mint)
          /\ (\E m \in mints : delta(m) > 0)
               => /\ trade.token_out.mint \in mints
                  /\ \A m \in mints : delta(trade.token_out.mint) >= delta(m)
                  /\ trade.amount_out = delta(trade.token_out.mint)

\* lamports the account at a 0-based index gained over the transaction
LamportDelta(tx, index) ==
    IF index >= 0 /\ index < Len(tx.pre_balances) /\ index < Len(tx.post_balances)
    THEN At(tx.post_balances, index) - At(tx.pre_balances, index)
    ELSE 0

\* what the user realised on the native side: the lamports of the base account
\* plus the wrapped-native token accounts
NativeDelta(tx, user, index) == LamportDelta(tx, index) + DeltaOf(tx, user, WSOL_MINT)

\* the AMM v4 decoder returned a Trade
AmmV4Decoded ==
    /\ Decoding
    /\ build.result.kind = "Some"
    /\ build.result.trade.dex_type = "RaydiumAmmV4"

\* C35: the AMM v4 decoder derives direction and both amounts from the user's
\* realised balance deltas, not from the declared amount_in: a user who paid
\* native and received MINT_A gets direction Buy, amount_in = the native paid,
\* amount_out = the tokens received; a user who paid MINT_A and received native
\* gets direction Sell, amount_in = the tokens paid, amount_out = the native
\* received.
C35_AmountsFromRealizedDeltas ==
    AmmV4Decoded =>
        LET tx == build.args[1]
            trade == build.result.trade
            native == NativeDelta(tx, trade.wallet, 0)
            token == DeltaOf(tx, trade.wallet, MINT_A)
        IN /\ (native < 0 /\ token > 0) =>
                  /\ trade.trade_direction = "Buy"
                  /\ trade.amount_in = -native
                  /\ trade.amount_out = token
           /\ (native > 0 /\ token < 0) =>
                  /\ trade.trade_direction = "Sell"
                  /\ trade.amount_in = -token
                  /\ trade.amount_out = native

\* the user owns no wrapped-native token account in the transaction
NoWsolAccount(tx, user) ==
    \A rows \in {tx.pre_token_balances, tx.post_token_balances} :
        \A i \in DOMAIN rows : ~(rows[i].owner = user /\ rows[i].mint = WSOL_MINT)

\* C36: when the user has no wrapped-native token account, the bonding-curve
\* and CPMM decoders use the lamport delta of the user's base account as the
\* native-side amount: a well-formed swap of the leader whose MINT_A balance
\* falls while the lamports rise decodes to direction Sell, amount_in = the
\* tokens paid, amount_out = the lamports gained, token_out.mint = wrapped-native.
C36_NativeLamportFallback ==
    Decoding =>
        LET tx == build.args[1]
            dex_type == identify_dex_from_accounts(tx.account_keys)
            native == LamportDelta(tx, Position(tx.account_keys, LEADER))
            token == DeltaOf(tx, LEADER, MINT_A)
        IN (/\ dex_type \in {"RaydiumCPMM", "PumpFun"}
            /\ HasSwapDiscriminator(dex_type, build.args[2])
            /\ Len(build.args[2]) >= 17
            /\ NoWsolAccount(tx, LEADER)
            /\ token < 0 /\ native > 0)
           => /\ build.result.kind = "Some"
              /\ build.result.trade.wallet = LEADER
              /\ build.result.trade.trade_direction = "Sell"
              /\ build.result.trade.amount_in = -token
              /\ build.result.trade.amount_out = native
              /\ build.result.trade.token_out.mint = WSOL_MINT

\* lamports the user's base account lost over the transaction
UserSpent(tx, user) ==
    LET delta == LamportDelta(tx, Position(tx.account_keys, user))
    IN IF delta < 0 THEN -delta ELSE 0

\* C37: for every decoded Trade of every dialect, gas_fee is at least the base
\* network fee of 5000 lamports and equals the lamport delta of the user's
\* account plus the balance delta of every account whose key has a tip marker.
C37_GasFeeFromLamportDeltas ==
    (Decoding /\ build.result.kind = "Some") =>
        LET tx == build.args[1]
            trade == build.result.trade
        IN /\ trade.gas_fee >= BASE_FEE
           /\ trade.gas_fee = UserSpent(tx, trade.wallet)
                              + TipSum(tx.pre_balances, tx.post_balances, tx.account_keys, 1)

\* the swap instruction of the mirror transaction a CPMM task is about to sign
MirrorInstruction(i) ==
    create_raydium_cpmm_swap_instructions_v2_static(tasks[i].trade, tasks[i].account_keys)

\* C38: every account marked signer in an instruction of a mirror transaction
\* is the follower wallet, so the follower's signature alone signs it: this
\* holds of every submitted swap, and no mirror instruction a task builds names
\* another signer (the leader), which would make signing fail.
C38_FollowerIsOnlySigner ==
    /\ \A sub \in sent : sub.kind = "swap" => SignAccepted(sub.instruction)
    /\ \A i \in DOMAIN tasks :
          /\ tasks[i].pc = "cpmm_send" => SignAccepted(MirrorInstruction(i))
          /\ tasks[i].result.kind # "Panicked"

\* the instruction the spawned bonding-curve closure builds at dispatch from
\* the leader's account_keys and max_sol_cost = trade.amount_in
DispatchInstruction(t) ==
    create_pump_instructions(t.trade, PumpFunAccounts(t.account_keys), t.trade.amount_in)

\* C39: the bonding-curve mirror transaction that is submitted carries the
\* fee_recipient, mint, bonding_curve, associated_bonding_curve and
\* event_authority of the leader's account_keys (indices 1, 2, 3, 4, 10) and
\* the max cost computed at dispatch: the instruction built at dispatch is the
\* one that is sent.
C39_DispatchInstructionIsSent ==
    \A sub \in sent :
       (sub.kind = "swap" /\ sub.protocol = "pump") =>
          LET keys == tasks[sub.task].account_keys
              metas == sub.instruction.accounts
          IN /\ metas[2].pubkey = At(keys, 1)
             /\ metas[3].pubkey = At(keys, 2)
             /\ metas[4].pubkey = At(keys, 3)
             /\ metas[5].pubkey = At(keys, 4)
             /\ metas[11].pubkey = At(keys, 10)
             /\ sub.instruction = DispatchInstruction(tasks[sub.task])

\* C40: for every Trade returned by any decoder dialect, token_in.mint differs
\* from token_out.mint and exactly one of the two is the wrapped-native mint:
\* native in and token out for a Buy, token in and native out for a Sell.
C40_OneSideIsNative ==
    (Decoding /\ build.result.kind = "Some") =>
        LET trade == build.result.trade
        IN /\ trade.token_in.mint # trade.token_out.mint
           /\ trade.trade_direction = "Buy" =>
                 /\ trade.token_in.mint = WSOL_MINT
                 /\ trade.token_out.mint # WSOL_MINT
           /\ trade.trade_direction = "Sell" =>
                 /\ trade.token_in.mint # WSOL_MINT
                 /\ trade.token_out.mint = WSOL_MINT

Next ==
    \/ Connect
    \/ ReceiveTransaction
    \/ SaveTrade
    \/ StreamEnds
    \/ SleepDone
    \/ ExternalUnwrap
    \/ \E i \in DOMAIN tasks : ExecStart(i)
    \/ \E i \in DOMAIN tasks : ExecSellCheck(i)
    \/ \E i \in DOMAIN tasks : ExecWsolCheck(i)
    \/ \E i \in DOMAIN tasks : ExecSolCheck(i)
    \/ \E i \in DOMAIN tasks : ExecWrap(i)
    \/ \E i \in DOMAIN tasks : ExecSwap(i)
    \/ \E i \in DOMAIN tasks : EnsureAtaCheck(i)
    \/ \E i \in DOMAIN tasks : EnsureAtaCreate(i)
    \/ \E i \in DOMAIN tasks : CpmmSwap(i)

Spec == Init /\ [][Next]_vars

\* the 5-second timer of tokio::time::sleep fires: the sleeping loop is resumed
SpecReconnect == Spec /\ WF_vars(SleepDone)

\* the pure-function harness
SpecBuild == InitBuild /\ [][NextBuild]_vars

====
